---------------------------- MODULE Spec2Model ----------------------------
(***************************************************************************)
(* A model of xcli: the chunked media upload engine (api.py), the query-id *)
(* cache (query_ids.py), the GraphQL request engine and the public read    *)
(* operations built on it (graphql.py), the tweet normalizer and the       *)
(* timeline extraction (graphql.py).  Each part has its own specification  *)
(* over the shared variables; the variables of the other parts stay at     *)
(* their initial values.                                                   *)
(***************************************************************************)
EXTENDS Integers, Sequences, FiniteSets, TLC

VARIABLES
    \* ---- api.py: upload_media / _simple_upload / _chunked_upload
    u_pc,               \* position in upload_media
    file,               \* the file being uploaded: [ext, size]
    media_id,           \* media id returned by INIT
    segment_index,      \* local segment_index of the APPEND loop
    f_pos,              \* read position of the open file
    processing_info,    \* local processing_info (a JSON value)
    u_result,           \* what upload_media returned or raised
    u_log,              \* every HTTP request and every sleep, in order
    \* ---- query_ids.py: the query-id cache
    cache_file,         \* content of ~/.xcli/query_ids.json
    now,                \* time.time(), in seconds
    q_last,             \* the last resolver call: its arguments and result
    \* ---- graphql.py: the response normalizer
    n_pc,               \* "input" before the normalizer ran, "parsed" after
    n_in,               \* the shape of the tweet node handed to _parse_tweet
    parsed,             \* what _parse_tweet returned (a record, None) or Raise
    \* ---- graphql.py: the request engine and the public read operations
    r_op,               \* the public read operation that was called
    r_pc,               \* position in it
    g_operation,        \* the GraphQL operation _graphql_request executes
    pass_no,            \* 1: cached + hardcoded ids, 2: after the rescrape
    method,             \* "GET" or "POST": the round of _try_query_ids
    query_ids,          \* query_ids handed to _try_query_ids
    idx,                \* position of qid in query_ids
    all_404,            \* local all_404 of _try_query_ids
    cookies,            \* the cookies dict of the running call
    fresh_cookies,      \* local fresh_cookies after a 401
    config_cookies,     \* read_auth_token/read_ct0 in ~/.xcli/config.json
    r_result,           \* what the public operation returned or raised
    g_raised,           \* the exception that left the GraphQL part, if one did
    hist,               \* history: the last HTTP exchange and counters
    \* ---- cookies.py, config.py: the credential/session cache file
    config_file,        \* content of ~/.xcli/config.json
    proc,               \* the invocations running on it, one per process
    setup_done,         \* the setups that completed: the credentials they stored
    \* ---- query_ids.py: discovery of the query ids
    s_pc,               \* position in _scrape_fresh_ids
    bundle_urls,        \* local bundle_urls
    s_idx,              \* position of url in bundle_urls
    s_found,            \* local found
    s_log,              \* the bundle downloads so far, in order
    s_result,           \* what _scrape_fresh_ids returned or raised
    \* ---- graphql.py: _parse_dm_inbox
    d_pc,               \* position in _parse_dm_inbox
    d_data,             \* its argument data
    d_idx,              \* position of entry in entries
    me_id,              \* local me_id
    latest,             \* local latest, in insertion order
    d_result,           \* what _parse_dm_inbox returned or raised
    \* ---- cli.py: the thread command
    t_pc,               \* position in thread
    tweet_entries,      \* local tweet_entries
    t_i,                \* position of entry in tweet_entries
    media_ids,          \* local media_ids
    prev_id,            \* local prev_id
    t_log,              \* every upload_media and post_tweet call, in order
    t_result            \* how the command ended

uploadVars ==
    <<u_pc, file, media_id, segment_index, f_pos, processing_info, u_result, u_log>>

cacheVars == <<cache_file, now, q_last>>

parseVars == <<n_pc, n_in, parsed>>

engineVars ==
    <<r_op, r_pc, g_operation, pass_no, method, query_ids, idx, all_404,
      cookies, fresh_cookies, config_cookies, r_result, g_raised, hist>>

configVars == <<config_file, proc, setup_done>>

scrapeVars == <<s_pc, bundle_urls, s_idx, s_found, s_log, s_result>>

dmVars == <<d_pc, d_data, d_idx, me_id, latest, d_result>>

threadVars == <<t_pc, tweet_entries, t_i, media_ids, prev_id, t_log, t_result>>

vars == <<uploadVars, cacheVars, parseVars, engineVars, configVars, scrapeVars,
          dmVars, threadVars>>

\* what the upload engine never touches
nonUploadVars ==
    <<cacheVars, parseVars, engineVars, configVars, scrapeVars,
      dmVars, threadVars>>

\* what the resolver never touches
nonCacheVars ==
    <<uploadVars, parseVars, engineVars, configVars, scrapeVars,
      dmVars, threadVars>>

\* what the normalizer never touches
nonParseVars ==
    <<uploadVars, cacheVars, engineVars, configVars, scrapeVars,
      dmVars, threadVars>>

\* what the read operations never touch (they read and write the query-id
\* cache file)
nonReadVars ==
    <<uploadVars, parseVars, q_last, configVars, scrapeVars,
      dmVars, threadVars>>

\* what the operations on the credential/session cache file never touch
nonConfigVars ==
    <<uploadVars, cacheVars, parseVars, engineVars, scrapeVars,
      dmVars, threadVars>>

\* what _parse_dm_inbox never touches
nonDmVars ==
    <<uploadVars, cacheVars, parseVars, engineVars, configVars, scrapeVars,
      threadVars>>

\* what the thread command never touches
nonThreadVars ==
    <<uploadVars, cacheVars, parseVars, engineVars, configVars, scrapeVars,
      dmVars>>

\* what discovery never touches
nonScrapeVars ==
    <<uploadVars, cacheVars, parseVars, engineVars, configVars,
      dmVars, threadVars>>

-----------------------------------------------------------------------------
(* JSON values as Python sees them after resp.json(): every value carries   *)
(* its type tag, so that dict.get on a non-dict raises as it does in Python *)

Null == [t |-> "null"]
Str(s) == [t |-> "str", v |-> s]
Num(n) == [t |-> "num", v |-> n]
Obj(f) == [t |-> "obj", v |-> f]
Arr(s) == [t |-> "arr", v |-> s]
\* the outcome of an expression that raised an exception
Raise == [t |-> "raise"]
EmptyDict == Obj([k \in {} |-> Null])

\* d.get(k, dflt): AttributeError when d is not a dict
dict_get(d, k, dflt) ==
    IF d.t = "obj" THEN (IF k \in DOMAIN d.v THEN d.v[k] ELSE dflt) ELSE Raise

\* d[k]: KeyError when k is missing, TypeError when d is not a dict
dict_item(d, k) ==
    IF d.t = "obj" /\ k \in DOMAIN d.v THEN d.v[k] ELSE Raise

\* bool(x) of a JSON value
Truthy(x) ==
    CASE x.t = "null" -> FALSE
      [] x.t = "str" -> x.v # ""
      [] x.t = "num" -> x.v # 0
      [] x.t = "obj" -> DOMAIN x.v # {}
      [] x.t = "arr" -> Len(x.v) > 0
      [] OTHER -> FALSE

\* x == "literal" for a JSON value x
IsStr(x, s) == x.t = "str" /\ x.v = s

Min(a, b) == IF a < b THEN a ELSE b

Range(sq) == {sq[i] : i \in 1..Len(sq)}

\* what a call returned or raised
NoResult == [kind |-> "none", value |-> "", message |-> ""]
Returned(v) == [kind |-> "returned", value |-> v, message |-> ""]
Raised(e, m) == [kind |-> "raised", value |-> e, message |-> m]

-----------------------------------------------------------------------------
(* The parts of the program a specification does not exercise stay idle    *)

\* no upload is running
UploadIdle ==
    /\ u_pc = "idle"
    /\ file = [ext |-> ".jpg", size |-> 0]
    /\ media_id = ""
    /\ segment_index = 0
    /\ f_pos = 0
    /\ processing_info = Null
    /\ u_result = NoResult
    /\ u_log = <<>>

\* the shape of a tweet node: how it is wrapped, the node itself, whether and
\* how it carries a retweeted_status_result, and the inner node
NodeParams(who, text, userloc, idloc, full) ==
    [who |-> who, text |-> text, userloc |-> userloc, idloc |-> idloc, full |-> full]

TweetShape(wrap, outer, rt, inner) ==
    [wrap |-> wrap, outer |-> outer, rt |-> rt, inner |-> inner]

NoInner == NodeParams("bob", "absent", "none", "none", FALSE)

\* the normalizer is not running
ParseIdle ==
    /\ n_pc = "idle"
    /\ n_in = TweetShape("bare", NoInner, "absent", NoInner)
    /\ parsed = Null

\* an HTTP exchange of the read path: which API, in which pass and round, for
\* which query id, whether it is the retry after a 401, with which cookies,
\* and the status that came back (0: no response, requests raised)
Exchange(api, pass, m, qid, retry, cred, status) ==
    [api |-> api, pass |-> pass, method |-> m, qid |-> qid, retry |-> retry,
     cred |-> cred, status |-> status]

NoExchange == Exchange("none", 0, "", "", FALSE, "", 0)

\* nothing was sent yet
NoHistory ==
    [last |-> NoExchange,   \* the last exchange
     sent |-> 0,            \* HTTP requests sent by the public operation
     n_req |-> 0,           \* requests sent by the running _graphql_request
     n_scrape |-> 0,        \* scrape_query_ids calls of the running _graphql_request
     n_refresh |-> 0,       \* credential refreshes of the running _graphql_request
     attempts1 |-> 0,       \* first requests for a query id in its pass 1
     non404_1 |-> FALSE,    \* some request of its pass 1 was not answered 404
     non404 |-> FALSE,      \* some request of it was not answered 404
     gets |-> 0,            \* first GET requests for a query id in the running pass
     get_non404 |-> FALSE,  \* one of them was not answered 404
     posts |-> 0,           \* first POST requests for a query id in the running pass
     got429 |-> FALSE,      \* some response of the public operation was a 429
     ids1 |-> 0,            \* query ids of the running _graphql_request's pass 1
     ids2 |-> 0,            \* query ids of its pass 2
     first401 |-> 0]        \* first requests for a query id it saw answered 401

\* no read operation is running
ReadIdle ==
    /\ r_op = "none"
    /\ r_pc = "idle"
    /\ g_operation = ""
    /\ pass_no = 0
    /\ method = ""
    /\ query_ids = <<>>
    /\ idx = 0
    /\ all_404 = TRUE
    /\ cookies = "none"
    /\ fresh_cookies = "none"
    /\ config_cookies = "none"
    /\ r_result = NoResult
    /\ g_raised = NoResult
    /\ hist = NoHistory

\* a resolver call: the function, its arguments, the mapping discovery
\* produced (scrape_query_ids only), the list returned, whether it sent an
\* HTTP request, how its cache write ended ("none": it wrote nothing) and
\* the function called before it
ResolverCall(fn, op, hc, fresh, ids, t, net, w, prev) ==
    [fn |-> fn, op |-> op, hardcoded |-> hc, fresh |-> fresh, ids |-> ids,
     at |-> t, network |-> net, write |-> w, prev |-> prev]

NoCall == ResolverCall("none", "", <<>>, EmptyDict, <<>>, 0, FALSE, "none", "none")

\* the resolver has not been called; no cache file exists
CacheIdle ==
    /\ cache_file = [t |-> "missing"]
    /\ now = 0
    /\ q_last = NoCall

-----------------------------------------------------------------------------
(* api.py: the official write client's media upload                        *)

SIMPLE_UPLOAD_MAX_BYTES == 5 * 1024 * 1024
CHUNK_SIZE == 4 * 1024 * 1024

IMAGE_EXTENSIONS == {".jpg", ".jpeg", ".png", ".webp"}
VIDEO_EXTENSIONS == {".mp4", ".mov"}
GIF_EXTENSIONS == {".gif"}
ALLOWED_EXTENSIONS == IMAGE_EXTENSIONS \cup VIDEO_EXTENSIONS \cup GIF_EXTENSIONS

\* bounds of the upload model
MaxChunks == 2
MaxPolls == 2

\* file sizes around every multiple of the chunk size and around the
\* simple-upload threshold, plus the empty file and a 10 MB file
FileSizes ==
    {0, 1, 10 * 1024 * 1024}
    \cup {k * CHUNK_SIZE + d : k \in 1..MaxChunks, d \in {-1, 0, 1}}
    \cup {SIMPLE_UPLOAD_MAX_BYTES + d : d \in {-1, 0, 1}}

\* upload_media takes any path; ".bin" stands for an extension outside
\* ALLOWED_EXTENSIONS
Files == [ext : ALLOWED_EXTENSIONS \cup {".bin"}, size : FileSizes]

MediaIds == {"m1", "m2"}

\* how one HTTP call can end: a 2xx response, a 4xx/5xx response
\* (raise_for_status raises), or no response (requests raises)
HttpOutcomes == {"ok", "http_error", "transport_error"}

\* bodies of a 2xx answer to the single upload and to INIT
IdBodies == {Obj([id |-> Str(m)]) : m \in MediaIds} \cup {EmptyDict}

\* processing_info values the server can send
ServerErrors == {Obj([message |-> Str("boom")]), Obj([code |-> Num(1)])}
ProcInfos ==
    {Null, EmptyDict}
    \cup {Obj("state" :> Str(s)) : s \in {"in_progress", "succeeded", "failed"}}
    \cup {Obj("check_after_secs" :> Num(c)) : c \in {1, 2}}
    \cup {Obj(("state" :> Str(s)) @@ ("check_after_secs" :> Num(c))) :
            s \in {"in_progress", "succeeded"}, c \in {1, 2}}
    \cup {Obj(("state" :> Str("failed")) @@ ("error" :> e)) : e \in ServerErrors}

\* bodies of a 2xx answer to FINALIZE and to STATUS
ProcBodies == {EmptyDict} \cup {Obj([processing_info |-> p]) : p \in ProcInfos}

Ev(e, i, n, c, st) == [ev |-> e, idx |-> i, n |-> n, cat |-> c, status |-> st]

\* the error a failed HTTP call raises
HttpError(outcome) ==
    IF outcome = "http_error" THEN Raised("HTTPError", "")
    ELSE Raised("RequestException", "")

\* upload_media, lines 83-88
media_category(ext) ==
    IF ext \in VIDEO_EXTENSIONS THEN "tweet_video"
    ELSE IF ext \in GIF_EXTENSIONS THEN "tweet_gif"
    ELSE "tweet_image"

\* a dispatch that looks at the size alone
UseSimpleUpload_sizeOnly(f) == f.size <= SIMPLE_UPLOAD_MAX_BYTES

\* a dispatch that sends a file of exactly the threshold size to the chunked
\* path
UseSimpleUpload_below(f) ==
    media_category(f.ext) = "tweet_image" /\ f.size < SIMPLE_UPLOAD_MAX_BYTES

\* upload_media, line 90: the single-request path is taken
UseSimpleUpload(f) ==
    media_category(f.ext) = "tweet_image" /\ f.size <= SIMPLE_UPLOAD_MAX_BYTES

\* a read that always fills the buffer while bytes are left
ReadChunk_padded(size, pos) == IF size - pos > 0 THEN CHUNK_SIZE ELSE 0

\* f.read(CHUNK_SIZE): the length of the chunk read at position pos
ReadChunk(size, pos) == Min(CHUNK_SIZE, size - pos)

\* str(x) inside the f-string of line 167
Format(x) == IF x.t = "str" THEN x.v ELSE "None"

\* a loop that polls whenever processing metadata came, whatever its state
PollCondition_anyInfo(pi) == Truthy(pi)

\* the loop condition of line 164
PollCondition(pi) ==
    Truthy(pi) /\ ~IsStr(dict_get(pi, "state", Null), "succeeded")

\* a loop that gives up on any state it is told
PollFailed_anyState(pi) == dict_get(pi, "state", Null) # Null

\* the test of line 165
PollFailed(pi) == IsStr(dict_get(pi, "state", Null), "failed")

\* an error text that ignores what the server said
PollError_generic(pi) == Str("Unknown error")

\* line 166
PollError(pi) ==
    dict_get(dict_get(pi, "error", EmptyDict), "message", Str("Unknown error"))

\* a wait that ignores what the server asked for
WaitSecs_default(pi) == Num(5)

\* line 168
WaitSecs(pi) == dict_get(pi, "check_after_secs", Num(5))

StatusCount == Cardinality({i \in 1..Len(u_log) : u_log[i].ev = "STATUS"})

UploadInit ==
    /\ u_pc = "start"
    /\ file \in Files
    /\ media_id = ""
    /\ segment_index = 0
    /\ f_pos = 0
    /\ processing_info = Null
    /\ u_result = NoResult
    /\ u_log = <<>>

\* upload_media for a small static image: _simple_upload, one multipart POST
SimpleUpload ==
    /\ u_pc = "start"
    /\ UseSimpleUpload(file)
    /\ \E outcome \in HttpOutcomes, body \in IdBodies :
        /\ u_log' = Append(u_log,
              Ev("SIMPLE", 0, file.size, media_category(file.ext), outcome))
        /\ IF outcome # "ok"
           THEN /\ u_result' = HttpError(outcome)
                /\ u_pc' = "failed"
           ELSE IF dict_item(body, "id") = Raise
           THEN /\ u_result' = Raised("KeyError", "id")
                /\ u_pc' = "failed"
           ELSE /\ u_result' = Returned(dict_item(body, "id").v)
                /\ u_pc' = "done"
    /\ UNCHANGED <<file, media_id, segment_index, f_pos, processing_info>>
    /\ UNCHANGED nonUploadVars

\* upload_media for anything else: _chunked_upload up to the INIT answer and
\* the opening of the file (lines 120-138)
Initialize ==
    /\ u_pc = "start"
    /\ ~UseSimpleUpload(file)
    /\ \E outcome \in HttpOutcomes, body \in IdBodies :
        /\ u_log' = Append(u_log,
              Ev("INIT", 0, file.size, media_category(file.ext), outcome))
        /\ IF outcome # "ok"
           THEN /\ u_result' = HttpError(outcome)
                /\ u_pc' = "failed"
                /\ UNCHANGED media_id
           ELSE IF dict_item(body, "id") = Raise
           THEN /\ u_result' = Raised("KeyError", "id")
                /\ u_pc' = "failed"
                /\ UNCHANGED media_id
           ELSE /\ media_id' = dict_item(body, "id").v
                /\ u_pc' = "append"
                /\ UNCHANGED u_result
    /\ segment_index' = 0
    /\ f_pos' = 0
    /\ UNCHANGED <<file, processing_info>>
    /\ UNCHANGED nonUploadVars

\* an APPEND loop without raise_for_status
AppendChunk_unchecked ==
    /\ u_pc = "append"
    /\ ReadChunk(file.size, f_pos) > 0
    /\ \E outcome \in HttpOutcomes :
        /\ u_log' = Append(u_log,
              Ev("APPEND", segment_index, ReadChunk(file.size, f_pos),
                 media_category(file.ext), outcome))
        /\ f_pos' = f_pos + ReadChunk(file.size, f_pos)
        /\ segment_index' = segment_index + 1
    /\ UNCHANGED <<u_pc, u_result, file, media_id, processing_info>>
    /\ UNCHANGED nonUploadVars

\* one iteration of the APPEND loop that read a non-empty chunk (lines 139-151)
AppendChunk ==
    /\ u_pc = "append"
    /\ ReadChunk(file.size, f_pos) > 0
    /\ \E outcome \in HttpOutcomes :
        /\ u_log' = Append(u_log,
              Ev("APPEND", segment_index, ReadChunk(file.size, f_pos),
                 media_category(file.ext), outcome))
        /\ f_pos' = f_pos + ReadChunk(file.size, f_pos)
        /\ IF outcome # "ok"
           THEN /\ u_result' = HttpError(outcome)
                /\ u_pc' = "failed"
                /\ UNCHANGED segment_index
           ELSE /\ segment_index' = segment_index + 1
                /\ UNCHANGED <<u_pc, u_result>>
    /\ UNCHANGED <<file, media_id, processing_info>>
    /\ UNCHANGED nonUploadVars

\* the read that returned no bytes ends the loop; FINALIZE (lines 141-163)
Finalize ==
    /\ u_pc = "append"
    /\ ReadChunk(file.size, f_pos) = 0
    /\ \E outcome \in HttpOutcomes, data \in ProcBodies :
        /\ u_log' = Append(u_log,
              Ev("FINALIZE", 0, 0, media_category(file.ext), outcome))
        /\ IF outcome # "ok"
           THEN /\ u_result' = HttpError(outcome)
                /\ u_pc' = "failed"
                /\ UNCHANGED processing_info
           ELSE /\ processing_info' = dict_get(data, "processing_info", Null)
                /\ u_pc' = "poll"
                /\ UNCHANGED u_result
    /\ UNCHANGED <<file, media_id, segment_index, f_pos>>
    /\ UNCHANGED nonUploadVars

\* the loop condition of line 164 is false: return media_id (line 179)
PollReturn ==
    /\ u_pc = "poll"
    /\ ~PollCondition(processing_info)
    /\ u_result' = Returned(media_id)
    /\ u_pc' = "done"
    /\ UNCHANGED <<file, media_id, segment_index, f_pos, processing_info, u_log>>
    /\ UNCHANGED nonUploadVars

\* state "failed": raise with the server's message (lines 165-167)
PollFail ==
    /\ u_pc = "poll"
    /\ PollCondition(processing_info)
    /\ PollFailed(processing_info)
    /\ u_result' =
          IF PollError(processing_info) = Raise
          THEN Raised("AttributeError", "")
          ELSE Raised("RuntimeError",
                      "Media processing failed: " \o Format(PollError(processing_info)))
    /\ u_pc' = "failed"
    /\ UNCHANGED <<file, media_id, segment_index, f_pos, processing_info, u_log>>
    /\ UNCHANGED nonUploadVars

\* any other state: sleep the server-directed interval (lines 168-169)
PollSleep ==
    /\ u_pc = "poll"
    /\ PollCondition(processing_info)
    /\ ~PollFailed(processing_info)
    /\ StatusCount < MaxPolls
    /\ u_log' = Append(u_log,
          Ev("SLEEP", 0, WaitSecs(processing_info).v, media_category(file.ext), "ok"))
    /\ u_pc' = "status"
    /\ UNCHANGED <<file, media_id, segment_index, f_pos, processing_info, u_result>>
    /\ UNCHANGED nonUploadVars

\* the STATUS request after the sleep (lines 170-177)
Status ==
    /\ u_pc = "status"
    /\ \E outcome \in HttpOutcomes, data \in ProcBodies :
        /\ u_log' = Append(u_log,
              Ev("STATUS", 0, 0, media_category(file.ext), outcome))
        /\ IF outcome # "ok"
           THEN /\ u_result' = HttpError(outcome)
                /\ u_pc' = "failed"
                /\ UNCHANGED processing_info
           ELSE /\ processing_info' = dict_get(data, "processing_info", Null)
                /\ u_pc' = "poll"
                /\ UNCHANGED u_result
    /\ UNCHANGED <<file, media_id, segment_index, f_pos>>
    /\ UNCHANGED nonUploadVars

UploadNext ==
    \/ SimpleUpload
    \/ Initialize
    \/ AppendChunk
    \/ Finalize
    \/ PollReturn
    \/ PollFail
    \/ PollSleep
    \/ Status

-----------------------------------------------------------------------------
(* query_ids.py: the query-id resolver and its cache file                  *)

_CACHE_TTL == 86400

\* graphql.py, QUERY_IDS: the hardcoded identifiers per operation
QUERY_IDS ==
    [SearchTimeline |-> <<"M1jEez78PEfVfbQLvlWMvQ", "6AAys3t42mosm_yTI_QENg">>,
     HomeTimeline |-> <<"edseUwk9sP5Phz__9TIRnA">>,
     HomeLatestTimeline |-> <<"iOEZpOdfekFsxSlPQCQtPg">>,
     TweetDetail |-> <<"97JF30KziU00483E_8elBA", "_NvJCnIjOW__EP5-RF197A">>,
     Bookmarks |-> <<"RV1g3b8n_SGOHwkqKYSCFw", "tmd4ifV8RHltzn8ymGg1aw">>,
     Likes |-> <<"JR2gceKucIKcVNB_9JkhsA", "ETJflBunfqNa1uE1mBPCaw">>,
     Following |-> <<"BEkNpEt5pNETESoqMsTEGA">>,
     Followers |-> <<"kuFUYP9eV1FPoEy4N-pi7w">>,
     UserByScreenName |-> <<"xmU6X_CKHnXF_A26BfMEMQ", "qRednkZG-rn1P6b48NINmQ">>,
     UserTweets |-> <<"H8OOoI-5ZE4NxgRr8lfyPg", "CdG2Vuc1v6F5JyEngGpxVw">>]

\* bound of the resolver model: the clock runs over MaxDays TTL periods
MaxDays == 1

\* the clock reading when the model starts (any time.time() of this century
\* is far above the TTL)
Now0 == 1700000000

\* the readings time.time() can give: each TTL period and one second after
Clock == {Now0 + k * _CACHE_TTL + d : k \in 0..MaxDays, d \in {0, 1}}

\* the operations the resolver is called for in this model: one with two
\* hardcoded identifiers, one with one, and one QUERY_IDS does not know
CacheOps == {"SearchTimeline", "HomeTimeline", "NoSuchOperation"}

\* an identifier discovery can find that is not hardcoded
ScrapedQid == "Zq8fresh0scraped0query0id"

\* the hardcoded argument: graphql.py passes QUERY_IDS.get(operation, [])
Hardcoded(op) == IF op \in DOMAIN QUERY_IDS THEN QUERY_IDS[op] ELSE <<>>

\* what _scrape_fresh_ids can return: a new identifier for some of the known
\* operations, or for SearchTimeline its second hardcoded identifier again
FreshMappings ==
    {Obj(f) : f \in UNION {[S -> {Str(ScrapedQid)}] :
                              S \in SUBSET {"SearchTimeline", "HomeTimeline"}}}
    \cup {Obj(("SearchTimeline" :> Str(QUERY_IDS["SearchTimeline"][2])) @@ f) :
            f \in UNION {[S -> {Str(ScrapedQid)}] : S \in SUBSET {"HomeTimeline"}}}

MissingFile == [t |-> "missing"]
\* a file json.load cannot parse (or open cannot read)
CorruptFile == [t |-> "corrupt"]

\* cache files the program may find when it starts
InitCacheFiles ==
    {MissingFile, CorruptFile,
     Obj("SearchTimeline" :> Str(ScrapedQid))}
    \cup {Obj(("_scraped_at" :> Num(Now0 - age)) @@ m.v) :
            age \in {0, _CACHE_TTL, _CACHE_TTL + 1},
            m \in {fm \in FreshMappings : DOMAIN fm.v # {}}}

\* a cache load that never expires an entry
_load_cache_noTTL(f, t) == IF f.t # "obj" THEN Null ELSE f

\* _load_cache at time t: None when the file cannot be read or is expired
_load_cache(f, t) ==
    IF f.t # "obj" THEN Null
    ELSE IF t - dict_get(f, "_scraped_at", Num(0)).v > _CACHE_TTL THEN Null
    ELSE f

\* a save that writes the mapping without its timestamp
_save_cache_noTimestamp(ids, t) == ids

\* {"_scraped_at": time.time(), **ids}
_save_cache(ids, t) == Obj(ids.v @@ ("_scraped_at" :> Num(t)))

\* for qid in hardcoded: if qid not in seen: ids.append(qid); seen.add(qid)
RECURSIVE AppendUnique(_, _)
AppendUnique(ids, qs) ==
    IF qs = <<>> THEN ids
    ELSE IF Head(qs) \in Range(ids) THEN AppendUnique(ids, Tail(qs))
    ELSE AppendUnique(Append(ids, Head(qs)), Tail(qs))

\* cached (or scraped) identifier first, when there is one
FirstId(x) == IF Truthy(x) THEN <<x.v>> ELSE <<>>

\* a resolver that lists the hardcoded identifiers before the cached one
get_query_ids_hardcodedFirst(f, t, operation, hardcoded) ==
    LET cache == _load_cache(f, t)
        cached_id == IF Truthy(cache) THEN dict_get(cache, operation, Null) ELSE Null
    IN AppendUnique(AppendUnique(<<>>, hardcoded), FirstId(cached_id))

\* get_query_ids(operation, hardcoded) with the cache file f at time t
get_query_ids(f, t, operation, hardcoded) ==
    LET cache == _load_cache(f, t)
        cached_id == IF Truthy(cache) THEN dict_get(cache, operation, Null) ELSE Null
    IN AppendUnique(FirstId(cached_id), hardcoded)

\* the list scrape_query_ids returns for the discovered mapping fresh
scraped_ids(fresh, operation, hardcoded) ==
    AppendUnique(FirstId(dict_get(fresh, operation, Null)), hardcoded)

\* how the write of _save_cache can end: written, open() failed (the OSError
\* is swallowed, the old file stays), or the write broke off half way
SaveOutcomes == {"written", "open_failed", "truncated"}

\* scrape_query_ids, lines 210-212: the cache file after discovery returned
\* fresh and the write ended as w
AfterScrape(f, fresh, w, t) ==
    IF ~Truthy(fresh) \/ w = "open_failed" THEN f
    ELSE IF w = "truncated" THEN CorruptFile
    ELSE _save_cache(fresh, t)

CacheInit ==
    /\ cache_file \in InitCacheFiles
    /\ now = Now0
    /\ q_last = NoCall

\* time passes: time.time() gives a later reading
Tick ==
    /\ \E t \in Clock : t > now /\ now' = t
    /\ UNCHANGED <<cache_file, q_last>>
    /\ UNCHANGED nonCacheVars

\* get_query_ids: the fast path, reads the cache file and the clock
GetQueryIds ==
    /\ \E op \in CacheOps :
        q_last' = ResolverCall("get_query_ids", op, Hardcoded(op), EmptyDict,
                      get_query_ids(cache_file, now, op, Hardcoded(op)), now,
                      FALSE, "none", q_last.fn)
    /\ UNCHANGED <<cache_file, now>>
    /\ UNCHANGED nonCacheVars

\* scrape_query_ids: discovery (the GET of the homepage, then of the bundles
\* it names), one cache write when something was found
ScrapeQueryIds ==
    /\ \E op \in CacheOps, fresh \in FreshMappings :
        \E w \in (IF Truthy(fresh) THEN SaveOutcomes ELSE {"none"}) :
            /\ cache_file' = AfterScrape(cache_file, fresh, w, now)
            /\ q_last' = ResolverCall("scrape_query_ids", op, Hardcoded(op), fresh,
                             scraped_ids(fresh, op, Hardcoded(op)), now,
                             TRUE, w, q_last.fn)
    /\ UNCHANGED now
    /\ UNCHANGED nonCacheVars

\* an invalidate_cache that leaves the file where it is
InvalidateCache_fileKept ==
    /\ cache_file' = cache_file
    /\ q_last' = ResolverCall("invalidate_cache", "", <<>>, EmptyDict, <<>>, now,
                     FALSE, "none", q_last.fn)
    /\ UNCHANGED now
    /\ UNCHANGED nonCacheVars

\* invalidate_cache: remove the file, a missing file is not an error
InvalidateCache ==
    /\ cache_file' = MissingFile
    /\ q_last' = ResolverCall("invalidate_cache", "", <<>>, EmptyDict, <<>>, now,
                     FALSE, "none", q_last.fn)
    /\ UNCHANGED now
    /\ UNCHANGED nonCacheVars

CacheNext ==
    \/ Tick
    \/ GetQueryIds
    \/ ScrapeQueryIds
    \/ InvalidateCache

-----------------------------------------------------------------------------
(* graphql.py: the response normalizer                                     *)

IsRaise(x) == x.t = "raise"
AnyRaise(S) == \E x \in S : IsRaise(x)

\* a or b
PyOr(a, b) == IF Truthy(a) THEN a ELSE b

\* the decimal strings the model's responses use, and their values
IntOfStr == [s \in {"0", "10", "20"} |-> IF s = "0" THEN 0 ELSE IF s = "10" THEN 10 ELSE 20]

\* int(x): ValueError for a non-numeric string, TypeError for None, dict, list
PyInt(x) ==
    IF x.t = "num" THEN x
    ELSE IF x.t = "str" /\ x.v \in DOMAIN IntOfStr THEN Num(IntOfStr[x.v])
    ELSE Raise

\* _extract_user_info: screen_name and name from core (new) or legacy (old)
_extract_user_info(user_result) ==
    LET user_core == dict_get(user_result, "core", EmptyDict)
        user_legacy == dict_get(user_result, "legacy", EmptyDict)
        core_sn == dict_get(user_core, "screen_name", Null)
        username == IF Truthy(core_sn) THEN core_sn
                    ELSE dict_get(user_legacy, "screen_name", Str(""))
        core_name == dict_get(user_core, "name", Null)
        name == IF Truthy(core_name) THEN core_name
                ELSE dict_get(user_legacy, "name", Str(""))
    IN IF AnyRaise({user_core, user_legacy, core_sn, username, core_name, name})
       THEN Raise
       ELSE Obj([username |-> username, name |-> name])

\* lines 230-231 and 244-245: step through a TweetWithVisibilityResults wrapper
UnwrapVisibility(result) ==
    IF IsStr(dict_get(result, "__typename", Null), "TweetWithVisibilityResults")
    THEN dict_get(result, "tweet", result)
    ELSE result

\* core.get("user_results", {}).get("result", {})
UserResultOf(result) ==
    dict_get(dict_get(dict_get(result, "core", EmptyDict), "user_results", EmptyDict),
             "result", EmptyDict)

\* a normalizer that keeps reading the outer node of a repost
ContentNode_outer(is_rt, result, rt_result) == result

\* lines 248-253: a repost's data is read from the inner (original) tweet
ContentNode(is_rt, result, rt_result) == IF is_rt THEN rt_result ELSE result

\* lines 259-271: the record built from the node the content is read from
TweetRecord(result, legacy, author, retweeted_by, text) ==
    LET rest_id == dict_get(result, "rest_id", Str(""))
        views == dict_get(dict_get(result, "views", EmptyDict), "count", Num(0))
        view_count == PyInt(PyOr(views, Num(0)))
    IN IF AnyRaise({rest_id, views, view_count}) THEN Raise
       ELSE Obj([id |-> dict_get(legacy, "id_str", rest_id),
                 text |-> text,
                 author |-> author,
                 retweetedBy |-> retweeted_by,
                 createdAt |-> dict_get(legacy, "created_at", Str("")),
                 replyCount |-> dict_get(legacy, "reply_count", Num(0)),
                 likeCount |-> dict_get(legacy, "favorite_count", Num(0)),
                 retweetCount |-> dict_get(legacy, "retweet_count", Num(0)),
                 viewCount |-> view_count])

\* _parse_tweet(raw): a normalized record, None (Null) or an exception (Raise)
_parse_tweet(raw) ==
    LET tweet_results == dict_get(raw, "tweet_results", raw)
        result0 == UnwrapVisibility(dict_get(tweet_results, "result", raw))
        legacy0 == dict_get(result0, "legacy", EmptyDict)
        outer_user0 == _extract_user_info(UserResultOf(result0))
        rt_result0 == dict_get(dict_get(legacy0, "retweeted_status_result", EmptyDict),
                               "result", EmptyDict)
        is_rt == Truthy(rt_result0)
        rt_result == UnwrapVisibility(rt_result0)
        retweeted_by == IF is_rt THEN outer_user0.v.username ELSE Null
        result == ContentNode(is_rt, result0, rt_result)
        legacy == dict_get(result, "legacy", EmptyDict)
        outer_user == _extract_user_info(UserResultOf(result))
        text == dict_get(legacy, "full_text", Str(""))
    IN IF AnyRaise({tweet_results, result0, legacy0, outer_user0, rt_result0})
       THEN Raise
       ELSE IF AnyRaise({rt_result, result, legacy, outer_user, text})
       THEN Raise
       ELSE IF ~Truthy(text) THEN Null
       ELSE TweetRecord(result, legacy, outer_user, retweeted_by, text)

\* ---- the tweet nodes the normalizer is run on

\* two accounts and two tweets whose every field differs
Username(who) == IF who = "alice" THEN "alice" ELSE "bob"
DisplayName(who) == IF who = "alice" THEN "Alice A." ELSE "Bob B."
TweetId(who) == IF who = "alice" THEN "100" ELSE "200"
TweetText(who) == IF who = "alice" THEN "RT @bob: hello" ELSE "hello"
CreatedAt(who) == IF who = "alice" THEN "Mon Nov 02 2026" ELSE "Tue Nov 03 2026"
Count(who, k) == IF who = "alice" THEN k ELSE 3 + k
Views(who) == IF who = "alice" THEN "10" ELSE "20"

\* a dict with the listed keys only
Pick(keys, f) == [k \in keys |-> f[k]]

\* a user_results.result node with the names under core or under legacy
UserNode(who, userloc) ==
    Obj(userloc :> Obj([screen_name |-> Str(Username(who)),
                        name |-> Str(DisplayName(who))]))

\* a Tweet node; rt is the value of legacy.retweeted_status_result or Raise
\* when the node carries none
TweetNode(p, rt) ==
    LET legacy_all ==
            [full_text |-> Str(IF p.text = "empty" THEN "" ELSE TweetText(p.who)),
             id_str |-> Str(TweetId(p.who)),
             created_at |-> Str(CreatedAt(p.who)),
             reply_count |-> Num(Count(p.who, 1)),
             favorite_count |-> Num(Count(p.who, 2)),
             retweet_count |-> Num(Count(p.who, 3)),
             retweeted_status_result |-> rt]
        legacy_keys ==
            (IF p.text = "absent" THEN {} ELSE {"full_text"})
            \cup (IF p.idloc = "id_str" THEN {"id_str"} ELSE {})
            \cup (IF p.full THEN {"created_at", "reply_count", "favorite_count",
                                  "retweet_count"} ELSE {})
            \cup (IF IsRaise(rt) THEN {} ELSE {"retweeted_status_result"})
        node_all ==
            [__typename |-> Str("Tweet"),
             rest_id |-> Str(TweetId(p.who)),
             legacy |-> Obj(Pick(legacy_keys, legacy_all)),
             core |-> Obj([user_results |->
                        Obj([result |-> UserNode(p.who, p.userloc)])]),
             views |-> Obj([count |-> Str(Views(p.who))])]
        node_keys ==
            {"__typename", "legacy"}
            \cup (IF p.idloc \in {"id_str", "rest_id"} THEN {"rest_id"} ELSE {})
            \cup (IF p.userloc = "none" THEN {} ELSE {"core"})
            \cup (IF p.full THEN {"views"} ELSE {})
    IN Obj(Pick(node_keys, node_all))

VisibilityWrapped(node) ==
    Obj([__typename |-> Str("TweetWithVisibilityResults"), tweet |-> node])

\* the value of legacy.retweeted_status_result for a shape
RetweetField(sh) ==
    CASE sh.rt = "absent" -> Raise
      [] sh.rt = "empty" -> EmptyDict
      [] sh.rt = "empty_result" -> Obj([result |-> EmptyDict])
      [] sh.rt = "inner" -> Obj([result |-> TweetNode(sh.inner, Raise)])
      [] sh.rt = "inner_visibility" ->
            Obj([result |-> VisibilityWrapped(TweetNode(sh.inner, Raise))])

\* the raw item handed to _parse_tweet
RawTweet(sh) ==
    LET node == TweetNode(sh.outer, RetweetField(sh))
    IN CASE sh.wrap = "bare" -> node
         [] sh.wrap = "tweet_results" -> Obj([tweet_results |-> Obj([result |-> node])])
         [] sh.wrap = "visibility" -> VisibilityWrapped(node)
         [] sh.wrap = "tweet_results_visibility" ->
               Obj([tweet_results |-> Obj([result |-> VisibilityWrapped(node)])])

NodeParamsOf(who) ==
    {NodeParams(who, text, userloc, idloc, full) :
        text \in {"present", "empty", "absent"},
        userloc \in {"core", "legacy", "none"},
        idloc \in {"id_str", "rest_id", "none"},
        full \in BOOLEAN}

TweetShapes ==
    {TweetShape(wrap, outer, rt, NoInner) :
        wrap \in {"bare", "tweet_results", "visibility", "tweet_results_visibility"},
        outer \in NodeParamsOf("alice"),
        rt \in {"absent", "empty", "empty_result"}}
    \cup
    {TweetShape(wrap, outer, rt, inner) :
        wrap \in {"bare", "tweet_results", "visibility", "tweet_results_visibility"},
        outer \in NodeParamsOf("alice"),
        rt \in {"inner", "inner_visibility"},
        inner \in NodeParamsOf("bob")}

ParseInit ==
    /\ n_pc = "input"
    /\ n_in \in TweetShapes
    /\ parsed = Null

\* _parse_tweet is applied to the item
ParseTweet ==
    /\ n_pc = "input"
    /\ parsed' = _parse_tweet(RawTweet(n_in))
    /\ n_pc' = "parsed"
    /\ UNCHANGED n_in
    /\ UNCHANGED nonParseVars

ParseNext ==
    \/ ParseTweet

-----------------------------------------------------------------------------
(* graphql.py: timeline extraction, user records, the v1.1 search records  *)
(* and the public read operations from the response on                     *)

\* what a for loop runs over: the list; nothing for an empty dict or string;
\* TypeError for None and numbers; a dict or string that is not empty hands
\* out strings, on which the loop body's .get raises
Iter(x) ==
    CASE x.t = "arr" -> x
      [] x.t = "obj" /\ DOMAIN x.v = {} -> Arr(<<>>)
      [] x.t = "str" /\ x.v = "" -> Arr(<<>>)
      [] OTHER -> Raise

\* the records collected by two stretches of a loop, unless one raised
Cat(a, b) == IF IsRaise(a) \/ IsRaise(b) THEN Raise ELSE Arr(a.v \o b.v)

\* a cap that keeps the last records
Slice_lastRecords(lst, count) ==
    IF IsRaise(lst) THEN Raise
    ELSE Arr(SubSeq(lst.v, Len(lst.v) - Min(count, Len(lst.v)) + 1, Len(lst.v)))

\* lst[:count]
Slice(lst, count) ==
    IF IsRaise(lst) THEN Raise
    ELSE IF count >= 0 THEN Arr(SubSeq(lst.v, 1, Min(count, Len(lst.v))))
    ELSE Arr(SubSeq(lst.v, 1, Len(lst.v) + count))

\* a dict whose keys are in the order keys, as json.loads built it
OrderedObj(keys, f) == [t |-> "obj", v |-> f, keys |-> keys]

RECURSIVE SeqOfSet(_)
SeqOfSet(S) ==
    IF S = {} THEN <<>>
    ELSE LET x == CHOOSE y \in S : TRUE IN <<x>> \o SeqOfSet(S \ {x})

\* the keys of a dict in its order; a dict built without one is taken in
\* some fixed order
Keys(d) == IF "keys" \in DOMAIN d THEN d.keys ELSE SeqOfSet(DOMAIN d.v)

RECURSIVE _find_instructions(_), FirstResult(_, _), ResultOr(_, _, _)

\* _find_instructions, lines 338-341: the loop over data.values() from the
\* key Head(ks) on; a result that is not truthy is passed over
FirstResult(data, ks) ==
    IF ks = <<>> THEN Arr(<<>>)
    ELSE ResultOr(_find_instructions(data.v[Head(ks)]), data, ks)

ResultOr(result, data, ks) ==
    IF Truthy(result) THEN result ELSE FirstResult(data, Tail(ks))

\* _find_instructions: the value under "instructions" when data is a dict
\* with that key, else the first truthy result for the values of data, in
\* their order (lists are not searched), else []
_find_instructions(data) ==
    IF data.t # "obj" THEN Arr(<<>>)
    ELSE IF "instructions" \in DOMAIN data.v THEN data.v["instructions"]
    ELSE FirstResult(data, Keys(data))

\* an extraction that appends whatever _parse_tweet returned, None included
TweetOfItem_keepsNone(ic) ==
    LET ty == dict_get(ic, "itemType", Null)
    IN IF IsRaise(ty) THEN Raise
       ELSE IF ~IsStr(ty, "TimelineTweet") THEN Arr(<<>>)
       ELSE LET tweet == _parse_tweet(ic)
            IN IF IsRaise(tweet) THEN Raise ELSE Arr(<<tweet>>)

\* _extract_timeline_tweets, lines 301-304 and 307-310: an itemContent of
\* type TimelineTweet is parsed, its record kept when there is one
TweetOfItem(ic) ==
    LET ty == dict_get(ic, "itemType", Null)
    IN IF IsRaise(ty) THEN Raise
       ELSE IF ~IsStr(ty, "TimelineTweet") THEN Arr(<<>>)
       ELSE LET tweet == _parse_tweet(ic)
            IN IF IsRaise(tweet) THEN Raise
               ELSE IF Truthy(tweet) THEN Arr(<<tweet>>) ELSE Arr(<<>>)

\* lines 306-310: the module items of an entry, in order
RECURSIVE TweetsOfItems(_)
TweetsOfItems(items) ==
    IF items = <<>> THEN Arr(<<>>)
    ELSE Cat(TweetOfItem(dict_get(dict_get(Head(items), "item", EmptyDict),
                                  "itemContent", EmptyDict)),
             TweetsOfItems(Tail(items)))

\* lines 298-310: the direct item of an entry, then its module items
TweetsOfEntry(entry) ==
    LET content == dict_get(entry, "content", EmptyDict)
        item_content == dict_get(content, "itemContent", EmptyDict)
        items == Iter(dict_get(content, "items", Arr(<<>>)))
    IN IF IsRaise(items) THEN Raise
       ELSE Cat(TweetOfItem(item_content), TweetsOfItems(items.v))

RECURSIVE TweetsOfEntries(_)
TweetsOfEntries(entries) ==
    IF entries = <<>> THEN Arr(<<>>)
    ELSE Cat(TweetsOfEntry(Head(entries)), TweetsOfEntries(Tail(entries)))

\* lines 294-297: instructions of another type are skipped
TweetsOfInstruction(instruction, instruction_type) ==
    LET ty == dict_get(instruction, "type", Null)
        entries == Iter(dict_get(instruction, "entries", Arr(<<>>)))
    IN IF IsRaise(ty) THEN Raise
       ELSE IF ~IsStr(ty, instruction_type) THEN Arr(<<>>)
       ELSE IF IsRaise(entries) THEN Raise
       ELSE TweetsOfEntries(entries.v)

RECURSIVE TweetsOfInstructions(_, _)
TweetsOfInstructions(instructions, instruction_type) ==
    IF instructions = <<>> THEN Arr(<<>>)
    ELSE Cat(TweetsOfInstruction(Head(instructions), instruction_type),
             TweetsOfInstructions(Tail(instructions), instruction_type))

\* _extract_timeline_tweets(data): the list of records, or an exception
_extract_timeline_tweets(data) ==
    LET instructions == Iter(_find_instructions(data))
    IN IF IsRaise(instructions) THEN Raise
       ELSE TweetsOfInstructions(instructions.v, "TimelineAddEntries")

\* _parse_user(raw)
_parse_user(raw) ==
    LET result == dict_get(dict_get(raw, "user_results", raw), "result", raw)
        info == _extract_user_info(result)
        legacy == dict_get(result, "legacy", EmptyDict)
        bio == dict_get(legacy, "description", Str(""))
    IN IF IsRaise(result) \/ IsRaise(info) \/ IsRaise(legacy) \/ IsRaise(bio)
       THEN Raise
       ELSE Obj([id |-> dict_get(result, "rest_id", Str("")),
                 username |-> info.v.username,
                 name |-> info.v.name,
                 bio |-> bio,
                 followers |-> dict_get(legacy, "followers_count", Num(0)),
                 following |-> dict_get(legacy, "friends_count", Num(0))])

\* _extract_timeline_users, lines 325-328: an itemContent of type
\* TimelineUser is parsed, its record kept when it has a username
UserOfItem(ic) ==
    LET ty == dict_get(ic, "itemType", Null)
    IN IF IsRaise(ty) THEN Raise
       ELSE IF ~IsStr(ty, "TimelineUser") THEN Arr(<<>>)
       ELSE LET user == _parse_user(ic)
            IN IF IsRaise(user) THEN Raise
               ELSE IF Truthy(user.v.username) THEN Arr(<<user>>) ELSE Arr(<<>>)

\* lines 323-328: the direct item of an entry only
UsersOfEntry(entry) ==
    UserOfItem(dict_get(dict_get(entry, "content", EmptyDict), "itemContent", EmptyDict))

RECURSIVE UsersOfEntries(_)
UsersOfEntries(entries) ==
    IF entries = <<>> THEN Arr(<<>>)
    ELSE Cat(UsersOfEntry(Head(entries)), UsersOfEntries(Tail(entries)))

UsersOfInstruction(instruction, instruction_type) ==
    LET ty == dict_get(instruction, "type", Null)
        entries == Iter(dict_get(instruction, "entries", Arr(<<>>)))
    IN IF IsRaise(ty) THEN Raise
       ELSE IF ~IsStr(ty, instruction_type) THEN Arr(<<>>)
       ELSE IF IsRaise(entries) THEN Raise
       ELSE UsersOfEntries(entries.v)

RECURSIVE UsersOfInstructions(_, _)
UsersOfInstructions(instructions, instruction_type) ==
    IF instructions = <<>> THEN Arr(<<>>)
    ELSE Cat(UsersOfInstruction(Head(instructions), instruction_type),
             UsersOfInstructions(Tail(instructions), instruction_type))

\* _extract_timeline_users(data)
_extract_timeline_users(data) ==
    LET instructions == Iter(_find_instructions(data))
    IN IF IsRaise(instructions) THEN Raise
       ELSE UsersOfInstructions(instructions.v, "TimelineAddEntries")

\* get_user_by_screen_name, lines 505-517, on the data _graphql_request
\* returned: None without a user result, else the record, its names read
\* from legacy
UserProfile(data) ==
    LET user_data == dict_get(dict_get(dict_get(data, "data", EmptyDict),
                                       "user", EmptyDict), "result", EmptyDict)
        legacy == dict_get(user_data, "legacy", EmptyDict)
        username == dict_get(legacy, "screen_name", Str(""))
    IN IF IsRaise(user_data) THEN Raise
       ELSE IF ~Truthy(user_data) THEN Null
       ELSE IF IsRaise(legacy) \/ IsRaise(username) THEN Raise
       ELSE Obj([id |-> dict_get(user_data, "rest_id", Str("")),
                 username |-> username,
                 name |-> dict_get(legacy, "name", Str("")),
                 bio |-> dict_get(legacy, "description", Str("")),
                 followers |-> dict_get(legacy, "followers_count", Num(0)),
                 following |-> dict_get(legacy, "friends_count", Num(0))])

\* _search_v1, lines 391-404: the record of one v1.1 status
StatusRecord(status) ==
    LET user == dict_get(status, "user", EmptyDict)
        username == dict_get(user, "screen_name", Str(""))
    IN IF IsRaise(user) \/ IsRaise(username) THEN Raise
       ELSE Obj([id |-> dict_get(status, "id_str", Str("")),
                 text |-> dict_get(status, "full_text", Str("")),
                 author |-> Obj([username |-> username,
                                 name |-> dict_get(user, "name", Str(""))]),
                 retweetedBy |-> Null,
                 createdAt |-> dict_get(status, "created_at", Str("")),
                 replyCount |-> Num(0),
                 likeCount |-> dict_get(status, "favorite_count", Num(0)),
                 retweetCount |-> dict_get(status, "retweet_count", Num(0)),
                 viewCount |-> Num(0)])

RECURSIVE StatusRecords(_)
StatusRecords(statuses) ==
    IF statuses = <<>> THEN Arr(<<>>)
    ELSE LET rec == StatusRecord(Head(statuses))
         IN Cat(IF IsRaise(rec) THEN Raise ELSE Arr(<<rec>>),
                StatusRecords(Tail(statuses)))

\* _search_v1, lines 389-406, on the JSON of a 200 response
SearchV1Records(json, count) ==
    LET statuses == Iter(dict_get(json, "statuses", Arr(<<>>)))
    IN IF IsRaise(statuses) THEN Raise
       ELSE Slice(StatusRecords(statuses.v), count)

\* read_tweet, lines 451-453: the first record whose id is tweet_id
RECURSIVE FocalTweet(_, _, _)
FocalTweet(tweets, tweet_id, first) ==
    IF tweets = <<>> THEN first
    ELSE IF dict_item(Head(tweets), "id") = Str(tweet_id) THEN Head(tweets)
    ELSE FocalTweet(Tail(tweets), tweet_id, first)


\* ---- the responses the extraction is run on

\* bound of the extraction model: the largest count a caller asks for
MaxCount == 3

\* a response holds up to five items, told apart by their position
Slots == 1..5
SlotId(k) == <<"t1", "t2", "t3", "t4", "t5">>[k]
SlotText(k) == <<"text 1", "text 2", "text 3", "text 4", "text 5">>[k]
\* a repost at position k: the original tweet's id and text
InnerId(k) == <<"r1", "r2", "r3", "r4", "r5">>[k]
InnerText(k) == <<"original 1", "original 2", "original 3", "original 4", "original 5">>[k]
\* the account at position k under the newer location (core) and the older
\* one (legacy)
CoreUsername(k) == <<"u1", "u2", "u3", "u4", "u5">>[k]
CoreName(k) == <<"User 1", "User 2", "User 3", "User 4", "User 5">>[k]
LegacyUsername(k) == <<"old1", "old2", "old3", "old4", "old5">>[k]
LegacyName(k) == <<"Old 1", "Old 2", "Old 3", "Old 4", "Old 5">>[k]
UserId(k) == <<"901", "902", "903", "904", "905">>[k]

\* where a user result carries the names: under core, under legacy, under
\* both, under legacy with empty strings under core, nowhere; "bad" has null
\* where the legacy object should be
UserLocs == {"core", "legacy", "both", "core_empty", "neither", "bad"}

UserResult(k, loc) ==
    LET core_names == Obj([screen_name |-> Str(CoreUsername(k)),
                           name |-> Str(CoreName(k))])
        legacy_names == Obj([screen_name |-> Str(LegacyUsername(k)),
                             name |-> Str(LegacyName(k))])
        empty_names == Obj([screen_name |-> Str(""), name |-> Str("")])
        id == "rest_id" :> Str(UserId(k))
    IN CASE loc = "core" -> Obj(id @@ ("core" :> core_names))
         [] loc = "legacy" -> Obj(id @@ ("legacy" :> legacy_names))
         [] loc = "both" -> Obj(id @@ ("core" :> core_names) @@ ("legacy" :> legacy_names))
         [] loc = "core_empty" ->
               Obj(id @@ ("core" :> empty_names) @@ ("legacy" :> legacy_names))
         [] loc = "neither" -> Obj(id)
         [] OTHER -> Obj(id @@ ("legacy" :> Null))

\* the author of the tweet at position k: each position another location
AuthorLoc(k) == <<"core", "legacy", "both", "core_empty", "neither">>[k]

\* the kinds of tweet item: a tweet, a repost, a tweet with empty or without
\* text, a repost of a tweet with empty text, a node whose legacy is null, a
\* node whose view count is no number, an item of another type (a cursor)
TweetKinds ==
    {"tweet", "repost", "empty", "absent", "repost_empty", "bad_legacy",
     "bad_views", "cursor"}

\* the original tweet inside the repost at position k
InnerNode(k, kind) ==
    Obj([rest_id |-> Str(InnerId(k)),
         legacy |-> Obj([full_text |->
                            Str(IF kind = "repost_empty" THEN "" ELSE InnerText(k)),
                         id_str |-> Str(InnerId(k))]),
         core |-> Obj([user_results |-> Obj([result |-> UserResult(k, "legacy")])]),
         views |-> Obj([count |-> Str("20")])])

\* the tweet node at position k
TimelineNode(k, kind) ==
    LET text == IF kind = "empty" THEN "" ELSE SlotText(k)
        legacy ==
            ("id_str" :> Str(SlotId(k)))
            @@ (IF kind = "absent" THEN << >> ELSE ("full_text" :> Str(text)))
            @@ (IF kind \in {"repost", "repost_empty"}
                THEN ("retweeted_status_result" :> Obj([result |-> InnerNode(k, kind)]))
                ELSE << >>)
    IN Obj([rest_id |-> Str(SlotId(k)),
            legacy |-> IF kind = "bad_legacy" THEN Null ELSE Obj(legacy),
            core |-> Obj([user_results |->
                       Obj([result |-> UserResult(k, AuthorLoc(k))])]),
            views |-> Obj([count |-> Str(IF kind = "bad_views" THEN "n/a" ELSE "10")])])

\* the itemContent at position k
TweetItem(k, kind) ==
    IF kind = "cursor"
    THEN Obj([itemType |-> Str("TimelineTimelineCursor"), value |-> Str("c")])
    ELSE Obj([itemType |-> Str("TimelineTweet"),
              tweet_results |-> Obj([result |-> TimelineNode(k, kind)])])

UserItem(k, loc) ==
    Obj([itemType |-> Str("TimelineUser"),
         user_results |-> Obj([result |-> UserResult(k, loc)])])

\* the itemContent of position k of input x ("none": the position is empty)
ItemOf(x, k) ==
    IF x.fn = "users" THEN UserItem(k, x.slots[k]) ELSE TweetItem(k, x.slots[k])

\* an entry with the direct item of position d (0: none) and the module
\* items of the positions ms
RECURSIVE ModuleItems(_, _)
ModuleItems(x, ms) ==
    IF ms = <<>> THEN <<>>
    ELSE (IF x.slots[Head(ms)] = "none" THEN <<>>
          ELSE <<Obj([item |-> Obj([itemContent |-> ItemOf(x, Head(ms))])])>>)
         \o ModuleItems(x, Tail(ms))

Entry(x, d, ms) ==
    Obj([content |->
          Obj((IF d = 0 \/ x.slots[d] = "none" THEN << >>
               ELSE ("itemContent" :> ItemOf(x, d)))
              @@ (IF ms = <<>> THEN << >>
                  ELSE ("items" :> Arr(ModuleItems(x, ms)))))])

\* a timeline response: a first instruction of type x.itype with one entry
\* (position 1), then a TimelineAddEntries instruction with an entry that has
\* a direct item (2) and a module of two (3, 4), and an entry with a direct
\* item (5)
TimelineResponse(x) ==
    Obj([data |-> Obj([home |-> Obj([home_timeline_urt |->
        Obj([instructions |->
            Arr(<<Obj([type |-> Str(x.itype),
                       entries |-> Arr(<<Entry(x, 1, <<>>)>>)]),
                  Obj([type |-> Str("TimelineAddEntries"),
                       entries |-> Arr(<<Entry(x, 2, <<3, 4>>),
                                         Entry(x, 5, <<>>)>>)])>>)])])])])

\* a UserByScreenName response for the account of position 1
ProfileResponse(x) ==
    Obj([data |-> Obj([user |->
        IF x.slots[1] = "none" THEN EmptyDict
        ELSE Obj([result |-> UserResult(1, x.slots[1])])])])

\* the kinds of v1.1 status: with text, with empty text, without text, with
\* null where the user object should be
StatusKinds == {"text", "empty", "absent", "bad_user"}

V1Status(k, kind) ==
    Obj(("id_str" :> Str(SlotId(k)))
        @@ ("favorite_count" :> Num(k))
        @@ ("user" :> IF kind = "bad_user" THEN Null
                      ELSE Obj([screen_name |-> Str(LegacyUsername(k)),
                                name |-> Str(LegacyName(k))]))
        @@ (IF kind = "absent" THEN << >>
            ELSE ("full_text" :> Str(IF kind = "empty" THEN "" ELSE SlotText(k)))))

RECURSIVE Statuses(_, _)
Statuses(x, ks) ==
    IF ks = <<>> THEN <<>>
    ELSE (IF x.slots[Head(ks)] = "none" THEN <<>>
          ELSE <<V1Status(Head(ks), x.slots[Head(ks)])>>)
         \o Statuses(x, Tail(ks))

\* a v1.1 search response with up to five statuses
SearchV1Response(x) == Obj([statuses |-> Arr(Statuses(x, <<1, 2, 3, 4, 5>>))])

\* an input of the extraction: the function family it is for, the type of
\* the first instruction, and the kind of item at each position
ExtractInput(fn, itype, slots) == [fn |-> fn, itype |-> itype, slots |-> slots]

InstructionTypes == {"TimelineAddEntries", "TimelineClearCache"}

\* the kinds a response holds any number of; of the others it holds at most
\* one
CommonKinds(fn) ==
    CASE fn = "tweets" -> {"tweet", "repost", "empty"}
      [] fn = "users" -> {"core", "legacy", "none"}
      [] fn = "statuses" -> {"text", "empty"}
      [] OTHER -> UserLocs \cup {"none"}

InputFamilies == {"tweets", "users", "profile", "statuses"}

SlotKinds(fn) ==
    CASE fn = "tweets" -> TweetKinds \cup {"none"}
      [] fn = "statuses" -> StatusKinds \cup {"none"}
      [] OTHER -> UserLocs \cup {"none"}

InstructionTypesOf(fn) ==
    IF fn \in {"tweets", "users"} THEN InstructionTypes ELSE {""}

\* the inputs the model runs on: a profile response holds one account
IsExtractInput(x) ==
    /\ Cardinality({k \in Slots : x.slots[k] \notin CommonKinds(x.fn)}) <= 1
    /\ x.fn = "profile" => \A k \in Slots \ {1} : x.slots[k] = "none"

\* what the v1.1 endpoint answers when search falls back to it
V1Answers ==
    {ExtractInput("statuses", "", s) :
        s \in {[k \in Slots |-> IF k = 1 THEN a ELSE IF k = 2 THEN b ELSE "none"] :
                 a \in {"text", "empty"}, b \in {"text"}}}

\* a call of a read operation on a response: the records extracted and the
\* value handed to the caller (Raise: an exception)
ExtractCall(fn, count, tweet_id, path, extracted, out) ==
    [fn |-> fn, count |-> count, tweet_id |-> tweet_id, path |-> path,
     extracted |-> extracted, out |-> out]

Counts == 0..MaxCount

ExtractInit ==
    /\ n_pc = "input"
    /\ \E fn \in InputFamilies :
         \E it \in InstructionTypesOf(fn), s1, s2, s3, s4, s5 \in SlotKinds(fn) :
            /\ n_in = ExtractInput(fn, it, <<s1, s2, s3, s4, s5>>)
            /\ IsExtractInput(n_in)
    /\ parsed = Null

\* lines 428, 462, 473, 484, 495, 534: the caller gets lst[:count]
Capped(fn, count, lst) == ExtractCall(fn, count, "", "graphql", lst, Slice(lst, count))

\* get_home_timeline, get_bookmarks, get_likes, get_user_tweets from the
\* response on (lines 428, 462, 473, 534)
GetTimelineTweets ==
    /\ n_pc = "input"
    /\ n_in.fn = "tweets"
    /\ \E count \in Counts :
         parsed' = Capped("timeline_tweets", count,
                          _extract_timeline_tweets(TimelineResponse(n_in)))
    /\ n_pc' = "parsed"
    /\ UNCHANGED n_in
    /\ UNCHANGED nonParseVars

\* lines 411-421: any exception of the extraction leads to _search_v1
SearchOutcome(count, tweets, answer) ==
    IF ~IsRaise(tweets) THEN Capped("search", count, tweets)
    ELSE ExtractCall("search", count, "", "v1", tweets,
                     SearchV1Records(SearchV1Response(answer), count))

\* search (and get_mentions) from the GraphQL response on
Search ==
    /\ n_pc = "input"
    /\ n_in.fn = "tweets"
    /\ \E count \in Counts, answer \in V1Answers :
         parsed' = SearchOutcome(count,
                                 _extract_timeline_tweets(TimelineResponse(n_in)),
                                 answer)
    /\ n_pc' = "parsed"
    /\ UNCHANGED n_in
    /\ UNCHANGED nonParseVars

\* search after _graphql_request raised: _search_v1 from its 200 response on
SearchV1 ==
    /\ n_pc = "input"
    /\ n_in.fn = "statuses"
    /\ \E count \in Counts :
         parsed' = ExtractCall("search", count, "", "v1", Raise,
                               SearchV1Records(SearchV1Response(n_in), count))
    /\ n_pc' = "parsed"
    /\ UNCHANGED n_in
    /\ UNCHANGED nonParseVars

\* read_tweet, lines 449-455: the record whose id is tweet_id, else the
\* first record, else None
ReadTweetRecord(tweets, tweet_id) ==
    ExtractCall("read_tweet", 0, tweet_id, "graphql", tweets,
                IF IsRaise(tweets) THEN Raise
                ELSE FocalTweet(tweets.v, tweet_id,
                                IF tweets.v = <<>> THEN Null ELSE tweets.v[1]))

\* read_tweet from the response on (lines 448-455)
ReadTweet ==
    /\ n_pc = "input"
    /\ n_in.fn = "tweets"
    /\ \E tweet_id \in {SlotId(4), InnerId(2), "t9"} :
         parsed' = ReadTweetRecord(_extract_timeline_tweets(TimelineResponse(n_in)),
                                   tweet_id)
    /\ n_pc' = "parsed"
    /\ UNCHANGED n_in
    /\ UNCHANGED nonParseVars

\* get_followers, get_following from the response on (lines 484, 495)
GetTimelineUsers ==
    /\ n_pc = "input"
    /\ n_in.fn = "users"
    /\ \E count \in Counts :
         parsed' = Capped("timeline_users", count,
                          _extract_timeline_users(TimelineResponse(n_in)))
    /\ n_pc' = "parsed"
    /\ UNCHANGED n_in
    /\ UNCHANGED nonParseVars

\* get_user_by_screen_name from the response on (lines 505-517)
GetUserByScreenName ==
    /\ n_pc = "input"
    /\ n_in.fn = "profile"
    /\ parsed' = ExtractCall("get_user_by_screen_name", 0, "", "graphql",
                             Null, UserProfile(ProfileResponse(n_in)))
    /\ n_pc' = "parsed"
    /\ UNCHANGED n_in
    /\ UNCHANGED nonParseVars

ExtractNext ==
    \/ GetTimelineTweets
    \/ Search
    \/ SearchV1
    \/ ReadTweet
    \/ GetTimelineUsers
    \/ GetUserByScreenName

-----------------------------------------------------------------------------
(* graphql.py, cookies.py: the GraphQL request engine and the public read  *)
(* operations built on it                                                  *)

\* the public read operations
PublicOps ==
    {"search", "get_mentions", "get_home_timeline", "read_tweet",
     "get_bookmarks", "get_likes", "get_followers", "get_following",
     "get_user_tweets", "get_dm_inbox"}

\* the read operations that send requests with the browser session's cookies
ReadOps == PublicOps \cup {"whoami"}

\* search, and get_mentions which is a call of search: the operations whose
\* GraphQL part runs inside try / except Exception
SearchOps == {"search", "get_mentions"}

\* the GraphQL operation a public operation executes first (get_user_tweets
\* resolves the handle, then executes UserTweets); get_dm_inbox executes none
FirstOperation(op) ==
    CASE op \in SearchOps -> "SearchTimeline"
      [] op = "get_home_timeline" -> "HomeLatestTimeline"
      [] op = "read_tweet" -> "TweetDetail"
      [] op = "get_bookmarks" -> "Bookmarks"
      [] op = "get_likes" -> "Likes"
      [] op = "get_followers" -> "Followers"
      [] op = "get_following" -> "Following"
      [] op = "get_user_tweets" -> "UserByScreenName"
      [] OTHER -> ""

\* the GraphQL operations a public operation executes
OperationsOf(op) ==
    IF op = "get_user_tweets" THEN {"UserByScreenName", "UserTweets"}
    ELSE {FirstOperation(op)} \ {""}

\* the v1.1 REST endpoint _search_v1, get_dm_inbox and whoami ask
RestApi(op) ==
    CASE op = "get_dm_inbox" -> "dm_inbox"
      [] op = "whoami" -> "verify_credentials"
      [] OTHER -> "search_v1"

\* the cookie pair the config file holds when the program starts, and the
\* pair the browsers hold
CachedPair == "pair_in_config"
BrowserPair == "pair_in_browser"

\* the browsers hold a session, or none does
BrowserOutcomes == {"found", "not_found"}

\* what a server can answer: no response at all (requests raises
\* RequestException, status 0 here), 401, 404, 429, any other status but 200
\* (500 stands for them), or 200 with a body that is a JSON object, the JSON
\* null, or not JSON
Response(status, body) == [status |-> status, body |-> body]

Responses ==
    {Response(s, "none") : s \in {0, 401, 404, 429, 500}}
    \cup {Response(200, b) : b \in {"dict", "null", "invalid"}}

\* the messages of the errors the read path raises
SessionExpired ==
    Raised("RuntimeError", "X session expired. Log into x.com in your browser and try again.")
RateLimited ==
    Raised("RuntimeError", "Rate limited by X. Wait a few minutes and try again.")
ApiChanged ==
    Raised("RuntimeError", "All query IDs failed. X may have changed their API.")
ApiRotated ==
    Raised("RuntimeError", "All query IDs failed. X may have rotated their API")
NoCookies ==
    Raised("RuntimeError", "Could not find X session cookies in any browser.")
StatusError == Raised("RuntimeError", "failed with status")
UserNotFound == Raised("RuntimeError", "User not found.")
TransportError == Raised("RequestException", "")
JsonError == Raised("JSONDecodeError", "")
ShapeError == Raised("AttributeError", "")

\* get_read_cookies with the config file holding cfg and the browsers
\* answering b: the cached pair when there is one, else the browsers' pair,
\* which is written to the config file, else RuntimeError
get_read_cookies(cfg, b) ==
    IF cfg # "none" THEN [ok |-> TRUE, cookies |-> cfg, config |-> cfg]
    ELSE IF b = "found"
         THEN [ok |-> TRUE, cookies |-> BrowserPair, config |-> BrowserPair]
         ELSE [ok |-> FALSE, cookies |-> "none", config |-> cfg]

\* clear_cached_cookies: the pair is removed from the config file
clear_cached_cookies(cfg) == "none"

\* json_body of _graphql_request is {"variables": ..., "features": ...}: it
\* is never empty, so the POST round runs over the same query ids
HasJsonBody == TRUE

\* the locals of the running call that its steps rewrite together
Locals ==
    [pc |-> r_pc, pass |-> pass_no, method |-> method, idx |-> idx,
     all_404 |-> all_404, result |-> r_result, raised |-> g_raised]

Become(s) ==
    /\ r_pc' = s.pc
    /\ pass_no' = s.pass
    /\ method' = s.method
    /\ idx' = s.idx
    /\ all_404' = s.all_404
    /\ r_result' = s.result
    /\ g_raised' = s.raised

\* an exception leaves a v1.1 REST function: the public operation raises it
Fail(s, err) == [s EXCEPT !.pc = "failed", !.result = err]

\* a search that falls back only when every query id was answered 404
Propagate_onlyRotated(s, err) ==
    IF r_op \in SearchOps /\ err = ApiRotated
    THEN [s EXCEPT !.pc = "rest_start", !.raised = err]
    ELSE [Fail(s, err) EXCEPT !.raised = err]

\* an exception leaves _graphql_request or the extraction that follows it:
\* search catches it (except Exception) and calls _search_v1, every other
\* public operation raises it
Propagate(s, err) ==
    IF r_op \in SearchOps THEN [s EXCEPT !.pc = "rest_start", !.raised = err]
    ELSE [Fail(s, err) EXCEPT !.raised = err]

\* a _graphql_request that answers every None with another rescrape
NoneReturned_rescrapeAgain(s) == [s EXCEPT !.pc = "rescrape"]

\* _try_query_ids returned None to _graphql_request: after pass 1 the
\* rescrape follows, after pass 2 the final RuntimeError
NoneReturned(s) ==
    IF s.pass = 1 THEN [s EXCEPT !.pc = "rescrape"]
    ELSE Propagate(s, ApiRotated)

\* a loop that starts the POST round whatever the GET round was answered
Continue_postAfterAnyGet(s) ==
    IF s.idx < Len(query_ids) THEN [s EXCEPT !.pc = "attempt", !.idx = @ + 1]
    ELSE IF s.method = "GET" /\ HasJsonBody
         THEN [s EXCEPT !.pc = "attempt", !.method = "POST", !.idx = 1,
                        !.all_404 = TRUE]
    ELSE IF ~s.all_404 THEN Propagate(s, ApiChanged)
    ELSE NoneReturned(s)

\* continue in _try_query_ids: the next query id of the round; after the last
\* one the round's "if not all_404: raise", then the POST round, then
\* "return None"
Continue(s) ==
    IF s.idx < Len(query_ids) THEN [s EXCEPT !.pc = "attempt", !.idx = @ + 1]
    ELSE IF ~s.all_404 THEN Propagate(s, ApiChanged)
    ELSE IF s.method = "GET" /\ HasJsonBody
         THEN [s EXCEPT !.pc = "attempt", !.method = "POST", !.idx = 1,
                        !.all_404 = TRUE]
    ELSE NoneReturned(s)

\* return resp.json() of _try_query_ids on a 200: the parsed object goes to
\* the public operation; the JSON null is None, which _graphql_request takes
\* for "all 404"; a body that is not JSON raises
Json200(s, body) ==
    CASE body = "dict" -> [s EXCEPT !.pc = "data"]
      [] body = "null" -> NoneReturned(s)
      [] OTHER -> Propagate(s, JsonError)

\* a loop that takes a 429 for one more status that is not 200
AfterAttempt_429Skipped(s, resp) ==
    LET t == [s EXCEPT !.all_404 = FALSE]
    IN CASE resp.status = 0 -> Continue(t)
         [] resp.status = 404 -> Continue(s)
         [] resp.status = 401 -> [t EXCEPT !.pc = "refresh"]
         [] resp.status = 200 -> Json200(t, resp.body)
         [] OTHER -> Continue(t)

\* _try_query_ids, lines 108-139: what follows the response to the first
\* request for a query id
AfterAttempt(s, resp) ==
    LET t == [s EXCEPT !.all_404 = FALSE]
    IN CASE resp.status = 0 -> Continue(t)
         [] resp.status = 404 -> Continue(s)
         [] resp.status = 401 -> [t EXCEPT !.pc = "refresh"]
         [] resp.status = 429 -> Propagate(t, RateLimited)
         [] resp.status = 200 -> Json200(t, resp.body)
         [] OTHER -> Continue(t)

\* a loop that refreshes the cookies again after the second 401
AfterRetry_refreshAgain(s, resp) ==
    CASE resp.status = 0 -> Propagate(s, TransportError)
      [] resp.status = 401 -> [s EXCEPT !.pc = "refresh"]
      [] resp.status = 429 -> Propagate(s, RateLimited)
      [] resp.status = 200 -> Json200(s, resp.body)
      [] OTHER -> Continue(s)

\* a loop that goes on to the next query id after the second 401
AfterRetry_second401Skipped(s, resp) ==
    CASE resp.status = 0 -> Propagate(s, TransportError)
      [] resp.status = 429 -> Propagate(s, RateLimited)
      [] resp.status = 200 -> Json200(s, resp.body)
      [] OTHER -> Continue(s)

\* _try_query_ids, lines 122-139: what follows the response to the request
\* repeated with fresh cookies (it is outside the try: a transport error
\* leaves the function)
AfterRetry(s, resp) ==
    CASE resp.status = 0 -> Propagate(s, TransportError)
      [] resp.status = 401 -> Propagate(s, SessionExpired)
      [] resp.status = 429 -> Propagate(s, RateLimited)
      [] resp.status = 200 -> Json200(s, resp.body)
      [] OTHER -> Continue(s)

\* the history after one more request was sent and answered
Sent(h, api, pass, m, qid, retry, cred, resp) ==
    [h EXCEPT
       !.last = Exchange(api, pass, m, qid, retry, cred, resp.status),
       !.gets = IF api # "graphql" THEN @
                ELSE (IF h.n_req = 0 \/ h.last.pass # pass THEN 0 ELSE @)
                     + (IF m = "GET" /\ ~retry THEN 1 ELSE 0),
       !.get_non404 = IF api # "graphql" THEN @
                      ELSE \/ ~(h.n_req = 0 \/ h.last.pass # pass) /\ @
                           \/ m = "GET" /\ ~retry /\ resp.status # 404,
       !.posts = IF api # "graphql" THEN @
                 ELSE (IF h.n_req = 0 \/ h.last.pass # pass THEN 0 ELSE @)
                      + (IF m = "POST" /\ ~retry THEN 1 ELSE 0),
       !.sent = @ + 1,
       !.n_req = IF api = "graphql" THEN @ + 1 ELSE @,
       !.attempts1 = IF api = "graphql" /\ pass = 1 /\ ~retry THEN @ + 1 ELSE @,
       !.non404_1 = IF api = "graphql" /\ pass = 1 THEN @ \/ resp.status # 404 ELSE @,
       !.non404 = IF api = "graphql" THEN @ \/ resp.status # 404 ELSE @,
       !.got429 = @ \/ resp.status = 429,
       !.first401 = IF api = "graphql" /\ ~retry /\ resp.status = 401
                    THEN @ + 1 ELSE @]

\* the cache files a read operation may find: none, one written just now or
\* one older than the TTL, holding a scraped id for the operations it executes
ReadCacheFiles(op) ==
    {MissingFile}
    \cup {Obj(("_scraped_at" :> Num(Now0 - age))
              @@ [o \in OperationsOf(op) |-> Str(ScrapedQid)]) :
            age \in {0, _CACHE_TTL + 1}}

\* what _scrape_fresh_ids can return during a rescrape for operation o:
\* nothing, a new identifier, or an identifier that is hardcoded already
ReadFresh(o) ==
    {EmptyDict, Obj(o :> Str(ScrapedQid)),
     Obj(o :> Str(Hardcoded(o)[Len(Hardcoded(o))]))}

ReadInit ==
    /\ r_op \in ReadOps
    /\ r_pc = IF r_op \in {"get_dm_inbox", "whoami"} THEN "rest_start" ELSE "execute"
    /\ g_operation = FirstOperation(r_op)
    /\ pass_no = 0
    /\ method = ""
    /\ query_ids = <<>>
    /\ idx = 0
    /\ all_404 = TRUE
    /\ cookies = "none"
    /\ fresh_cookies = "none"
    /\ config_cookies \in {"none", CachedPair}
    /\ r_result = NoResult
    /\ g_raised = NoResult
    /\ hist = NoHistory
    /\ cache_file \in ReadCacheFiles(r_op)
    /\ now = Now0
    /\ q_last = NoCall

\* _graphql_request, lines 171-181: the cookies, then the fast path of the
\* resolver; _try_query_ids starts on a list that is not empty
GraphqlRequest ==
    /\ r_pc = "execute"
    /\ \E b \in BrowserOutcomes :
        LET c == get_read_cookies(config_cookies, b)
            l == get_query_ids(cache_file, now, g_operation, Hardcoded(g_operation))
            h == [hist EXCEPT !.n_req = 0, !.n_scrape = 0, !.n_refresh = 0,
                              !.attempts1 = 0, !.non404_1 = FALSE,
                              !.non404 = FALSE, !.ids1 = Len(l), !.ids2 = 0,
                              !.first401 = 0]
        IN /\ config_cookies' = c.config
           /\ hist' = h
           /\ IF ~c.ok
              THEN /\ Become(Propagate(Locals, NoCookies))
                   /\ UNCHANGED <<cookies, query_ids>>
              ELSE /\ cookies' = c.cookies
                   /\ query_ids' = l
                   /\ Become([Locals EXCEPT
                                !.pc = IF l # <<>> THEN "attempt" ELSE "rescrape",
                                !.pass = 1, !.method = "GET", !.idx = 1,
                                !.all_404 = TRUE])
    /\ UNCHANGED <<r_op, g_operation, fresh_cookies, cache_file, now>>
    /\ UNCHANGED nonReadVars

\* _try_query_ids, lines 100-139: the request for query_ids[idx] with the
\* round's method and the call's cookies
TryQueryId ==
    /\ r_pc = "attempt"
    /\ \E resp \in Responses :
        /\ hist' = Sent(hist, "graphql", pass_no, method, query_ids[idx], FALSE,
                        cookies, resp)
        /\ Become(AfterAttempt(Locals, resp))
    /\ UNCHANGED <<r_op, g_operation, query_ids, cookies, fresh_cookies,
                   config_cookies, cache_file, now>>
    /\ UNCHANGED nonReadVars

\* _try_query_ids, lines 119-120 after a 401: clear_cached_cookies(), then
\* fresh_cookies = get_read_cookies(), which raises when no browser holds a
\* session
RefreshCookies ==
    /\ r_pc = "refresh"
    /\ \E b \in BrowserOutcomes :
        LET c == get_read_cookies(clear_cached_cookies(config_cookies), b)
        IN /\ config_cookies' = c.config
           /\ IF c.ok
              THEN /\ fresh_cookies' = c.cookies
                   /\ Become([Locals EXCEPT !.pc = "retry"])
              ELSE /\ UNCHANGED fresh_cookies
                   /\ Become(Propagate(Locals, NoCookies))
    /\ hist' = [hist EXCEPT !.n_refresh = @ + 1]
    /\ UNCHANGED <<r_op, g_operation, query_ids, cookies, cache_file, now>>
    /\ UNCHANGED nonReadVars

\* _try_query_ids, lines 121-131: the same request again with the fresh
\* cookies; cookies.update(fresh_cookies) unless it answers 401 or raises
RetryQueryId ==
    /\ r_pc = "retry"
    /\ \E resp \in Responses :
        /\ hist' = Sent(hist, "graphql", pass_no, method, query_ids[idx], TRUE,
                        fresh_cookies, resp)
        /\ cookies' = IF resp.status \in {0, 401} THEN cookies ELSE fresh_cookies
        /\ Become(AfterRetry(Locals, resp))
    /\ UNCHANGED <<r_op, g_operation, query_ids, fresh_cookies, config_cookies,
                   cache_file, now>>
    /\ UNCHANGED nonReadVars

\* _graphql_request, lines 185-196: invalidate_cache(), scrape_query_ids,
\* then _try_query_ids on the fresh list
Rescrape ==
    /\ r_pc = "rescrape"
    /\ \E fresh \in ReadFresh(g_operation), w \in SaveOutcomes :
        LET fresh_ids == scraped_ids(fresh, g_operation, Hardcoded(g_operation))
        IN /\ cache_file' = AfterScrape(MissingFile, fresh, w, now)
           /\ hist' = [hist EXCEPT !.n_scrape = @ + 1, !.ids2 = Len(fresh_ids)]
           /\ IF fresh_ids # <<>>
              THEN /\ query_ids' = fresh_ids
                   /\ Become([Locals EXCEPT !.pc = "attempt", !.pass = 2,
                                !.method = "GET", !.idx = 1, !.all_404 = TRUE])
              ELSE /\ UNCHANGED query_ids
                   /\ Become(Propagate(Locals, ApiRotated))
    /\ UNCHANGED <<r_op, g_operation, cookies, fresh_cookies, config_cookies, now>>
    /\ UNCHANGED nonReadVars

\* get_user_tweets, lines 522-524 with get_user_by_screen_name: the response
\* names the user and UserTweets is executed, or it names none, or it has
\* another shape
ResolveUser ==
    /\ r_pc = "data"
    /\ r_op = "get_user_tweets"
    /\ g_operation = "UserByScreenName"
    /\ \E u \in {"user", "no_user", "malformed"} :
        CASE u = "user" ->
               /\ g_operation' = "UserTweets"
               /\ Become([Locals EXCEPT !.pc = "execute"])
          [] u = "no_user" ->
               /\ UNCHANGED g_operation
               /\ Become(Fail(Locals, UserNotFound))
          [] OTHER ->
               /\ UNCHANGED g_operation
               /\ Become(Fail(Locals, ShapeError))
    /\ UNCHANGED <<r_op, query_ids, cookies, fresh_cookies, config_cookies, hist,
                   cache_file, now>>
    /\ UNCHANGED nonReadVars

\* the extraction a public operation applies to the data _graphql_request
\* returned (_extract_timeline_tweets, _extract_timeline_users): the records,
\* or an exception on a response of another shape
Extract ==
    /\ r_pc = "data"
    /\ ~(r_op = "get_user_tweets" /\ g_operation = "UserByScreenName")
    /\ \E o \in {"records", "raises"} :
        Become(IF o = "records"
               THEN [Locals EXCEPT !.pc = "done", !.result = Returned("records")]
               ELSE Propagate(Locals, ShapeError))
    /\ UNCHANGED <<r_op, g_operation, query_ids, cookies, fresh_cookies,
                   config_cookies, hist, cache_file, now>>
    /\ UNCHANGED nonReadVars

\* the answer of a v1.1 REST endpoint that is not a first 401: lines 384-390
\* of _search_v1, 671-675 of get_dm_inbox
RestAnswer(s, resp) ==
    CASE resp.status = 429 -> Fail(s, RateLimited)
      [] resp.status # 200 -> Fail(s, StatusError)
      [] resp.body = "dict" -> [s EXCEPT !.pc = "done", !.result = Returned("records")]
      [] resp.body = "null" -> Fail(s, ShapeError)
      [] OTHER -> Fail(s, JsonError)

\* _search_v1 line 356, get_dm_inbox line 651, whoami line 546:
\* cookies = get_read_cookies()
RestStart ==
    /\ r_pc = "rest_start"
    /\ \E b \in BrowserOutcomes :
        LET c == get_read_cookies(config_cookies, b)
        IN /\ config_cookies' = c.config
           /\ IF c.ok
              THEN /\ cookies' = c.cookies
                   /\ Become([Locals EXCEPT !.pc =
                                IF r_op = "whoami" THEN "whoami_request"
                                ELSE "rest_request"])
              ELSE /\ UNCHANGED cookies
                   /\ Become(Fail(Locals, NoCookies))
    /\ UNCHANGED <<r_op, g_operation, query_ids, fresh_cookies, hist, cache_file, now>>
    /\ UNCHANGED nonReadVars

\* _search_v1 lines 364-369, get_dm_inbox lines 653-657: the GET; requests'
\* exception leaves the function
RestRequest ==
    /\ r_pc = "rest_request"
    /\ \E resp \in Responses :
        /\ hist' = Sent(hist, RestApi(r_op), 0, "GET", "", FALSE, cookies, resp)
        /\ Become(CASE resp.status = 0 -> Fail(Locals, TransportError)
                    [] resp.status = 401 -> [Locals EXCEPT !.pc = "rest_refresh"]
                    [] OTHER -> RestAnswer(Locals, resp))
    /\ UNCHANGED <<r_op, g_operation, query_ids, cookies, fresh_cookies,
                   config_cookies, cache_file, now>>
    /\ UNCHANGED nonReadVars

\* _search_v1 lines 371-372, get_dm_inbox lines 659-660 after a 401
RestRefresh ==
    /\ r_pc = "rest_refresh"
    /\ \E b \in BrowserOutcomes :
        LET c == get_read_cookies(clear_cached_cookies(config_cookies), b)
        IN /\ config_cookies' = c.config
           /\ IF c.ok
              THEN /\ cookies' = c.cookies
                   /\ Become([Locals EXCEPT !.pc = "rest_retry"])
              ELSE /\ UNCHANGED cookies
                   /\ Become(Fail(Locals, NoCookies))
    /\ UNCHANGED <<r_op, g_operation, query_ids, fresh_cookies, hist, cache_file, now>>
    /\ UNCHANGED nonReadVars

\* _search_v1 lines 373-381, get_dm_inbox lines 661-670: the GET again
RestRetry ==
    /\ r_pc = "rest_retry"
    /\ \E resp \in Responses :
        /\ hist' = Sent(hist, RestApi(r_op), 0, "GET", "", TRUE, cookies, resp)
        /\ Become(CASE resp.status = 0 -> Fail(Locals, TransportError)
                    [] resp.status = 401 -> Fail(Locals, SessionExpired)
                    [] OTHER -> RestAnswer(Locals, resp))
    /\ UNCHANGED <<r_op, g_operation, query_ids, cookies, fresh_cookies,
                   config_cookies, cache_file, now>>
    /\ UNCHANGED nonReadVars

\* whoami, lines 548-570: the GET, asked once; a 401 clears the cached
\* cookies and raises
Whoami ==
    /\ r_pc = "whoami_request"
    /\ \E resp \in Responses :
        /\ hist' = Sent(hist, RestApi(r_op), 0, "GET", "", FALSE, cookies, resp)
        /\ config_cookies' = IF resp.status = 401
                             THEN clear_cached_cookies(config_cookies)
                             ELSE config_cookies
        /\ Become(CASE resp.status = 0 -> Fail(Locals, TransportError)
                    [] resp.status = 401 -> Fail(Locals, SessionExpired)
                    [] resp.status # 200 -> Fail(Locals, StatusError)
                    [] resp.body = "dict" ->
                         [Locals EXCEPT !.pc = "done", !.result = Returned("records")]
                    [] resp.body = "null" -> Fail(Locals, ShapeError)
                    [] OTHER -> Fail(Locals, JsonError))
    /\ UNCHANGED <<r_op, g_operation, query_ids, cookies, fresh_cookies,
                   cache_file, now>>
    /\ UNCHANGED nonReadVars

ReadNext ==
    \/ GraphqlRequest
    \/ TryQueryId
    \/ RefreshCookies
    \/ RetryQueryId
    \/ Rescrape
    \/ ResolveUser
    \/ Extract
    \/ RestStart
    \/ RestRequest
    \/ RestRefresh
    \/ RestRetry
    \/ Whoami

-----------------------------------------------------------------------------
(* graphql.py: _find_instructions on responses with several candidates     *)

\* what a response can hold under an "instructions" key found at a place:
\* a list of that place's instructions, an empty list, or null
InstructionsAt(place) == {Arr(<<Str(place)>>), Arr(<<>>), Null}

Holder(v) == OrderedObj(<<"instructions">>, "instructions" :> v)

\* what a response can hold under another key: no dict, a dict with an
\* "instructions" key, a dict with such a dict one level down, or a list
\* with such a dict in it
Subtrees(place) ==
    {Null, Str("cursor")}
    \cup {Holder(v) : v \in InstructionsAt(place)}
    \cup {OrderedObj(<<"timeline">>, "timeline" :> Holder(v)) : v \in InstructionsAt(place)}
    \cup {Arr(<<Holder(Arr(<<Str(place)>>))>>)}

\* the orders in which a response holds its keys
KeyOrders ==
    {<<"a">>, <<"a", "b">>, <<"b", "a">>, <<"a", "b", "instructions">>,
     <<"a", "instructions", "b">>, <<"instructions", "a", "b">>}

\* a response with the keys ks, in that order
Tree(ks, a, b, top) ==
    OrderedObj(ks, [k \in Range(ks) |->
                      CASE k = "a" -> a [] k = "b" -> b [] OTHER -> top])

FindInit ==
    /\ n_pc = "input"
    /\ \E ks \in KeyOrders, a \in Subtrees("a"), b \in Subtrees("b"),
          top \in InstructionsAt("top") :
            /\ "b" \notin Range(ks) => b = Null
            /\ "instructions" \notin Range(ks) => top = Null
            /\ n_in = Tree(ks, a, b, top)
    /\ parsed = Null

\* instructions = _find_instructions(data)
FindInstructions ==
    /\ n_pc = "input"
    /\ parsed' = _find_instructions(n_in)
    /\ n_pc' = "parsed"
    /\ UNCHANGED n_in
    /\ UNCHANGED nonParseVars

FindNext == FindInstructions

-----------------------------------------------------------------------------
(* cookies.py, config.py, cli.py: the credential/session cache file        *)

REQUIRED_KEYS == {"consumer_key", "consumer_secret", "access_token", "access_token_secret"}
COOKIE_NAMES == {"auth_token", "ct0"}
DOMAINS == <<".x.com", ".twitter.com">>
BROWSERS == <<"Arc", "Chrome", "Safari", "Firefox">>

\* the text of the file: a JSON object, or text that is not JSON and is as
\* long as an object of n keys (n = 0: the file was opened for writing and
\* nothing is written yet)
NotJson(n) == [t |-> "invalid", n |-> n]

\* the length of the file's text, counted in keys: json.dumps(config,
\* indent=2) writes one line per key
TextSize(f) ==
    CASE f.t = "obj" -> Cardinality(DOMAIN f.v)
      [] f.t = "invalid" -> f.n
      [] OTHER -> 0

\* the config dict setup builds from the prompts and verify_credentials
SetupKeys == REQUIRED_KEYS \cup {"user_id", "username"}
SetupConfig(run) == Obj([k \in SetupKeys |-> Str(run)])

\* the setup runs: one that completed before the program starts, and one per
\* process
SetupOf(p) == IF p = 1 THEN "setup_1" ELSE "setup_2"
EarlierSetup == "setup_0"

\* the value a browser's cookie store holds under a name for a domain
CookieValue(name, domain) ==
    CASE name = "auth_token" /\ domain = ".x.com" -> "auth_token@.x.com"
      [] name = "auth_token" /\ domain = ".twitter.com" -> "auth_token@.twitter.com"
      [] name = "ct0" /\ domain = ".x.com" -> "ct0@.x.com"
      [] name = "ct0" /\ domain = ".twitter.com" -> "ct0@.twitter.com"

\* what browser_fn(domain_name=domain) gives: an exception, or a cookie jar
\* holding some of the two names
Jar(error, names) == [error |-> error, names |-> names]
JarOutcomes == {Jar(TRUE, {})} \cup {Jar(FALSE, ns) : ns \in SUBSET COOKIE_NAMES}

\* _extract_from_browser from domain d on, with the dict found so far
RECURSIVE ScanDomains(_, _, _)
ScanDomains(jars, d, found) ==
    IF d > Len(DOMAINS)
    THEN (IF COOKIE_NAMES \subseteq DOMAIN found THEN Obj(found) ELSE Null)
    ELSE IF jars[d].error
         THEN ScanDomains(jars, d + 1, found)
         ELSE LET new == jars[d].names \ DOMAIN found
                  f == [n \in new |-> Str(CookieValue(n, DOMAINS[d]))] @@ found
              IN IF COOKIE_NAMES \subseteq DOMAIN f
                 THEN Obj(f)
                 ELSE ScanDomains(jars, d + 1, f)

_extract_from_browser(jars) == ScanDomains(jars, 1, [n \in {} |-> Null])

\* the dicts _extract_from_browser can return
FoundCookies ==
    {_extract_from_browser(jars) : jars \in [1..Len(DOMAINS) -> JarOutcomes]} \ {Null}

\* _load_cached on the file f
_load_cached(f) ==
    IF f.t # "obj" THEN Null
    ELSE IF Truthy(dict_get(f, "read_auth_token", Null))
            /\ Truthy(dict_get(f, "read_ct0", Null))
         THEN Obj(("auth_token" :> dict_get(f, "read_auth_token", Null))
                  @@ ("ct0" :> dict_get(f, "read_ct0", Null)))
         ELSE Null

\* _build_headers: the Cookie header and x-csrf-token of a request
_build_headers(c) ==
    [Cookie |-> <<"auth_token=", dict_item(c, "auth_token"),
                  "; ct0=", dict_item(c, "ct0")>>,
     x_csrf_token |-> dict_item(c, "ct0")]

\* the cookies are set in a new dict instead of the one read from the file
CachedConfig_notMerged(config, c) ==
    Obj(("read_auth_token" :> dict_item(c, "auth_token"))
        @@ ("read_ct0" :> dict_item(c, "ct0")))

\* _cache_cookies, lines 63-64: both cookies are set in config
CachedConfig(config, c) ==
    Obj(("read_auth_token" :> dict_item(c, "auth_token"))
        @@ ("read_ct0" :> dict_item(c, "ct0"))
        @@ config.v)

\* only read_auth_token is popped
ClearedConfig_tokenOnly(config) ==
    Obj([k \in DOMAIN config.v \ {"read_auth_token"} |-> config.v[k]])

\* clear_cached_cookies, lines 104-105: both cookies are popped from config
ClearedConfig(config) ==
    Obj([k \in DOMAIN config.v \ {"read_auth_token", "read_ct0"} |-> config.v[k]])

\* an invocation: the operation, its position, its local config and cookies,
\* the browser get_read_cookies is at, what it returned or raised, the
\* headers built from the returned cookies, and the invocations the process
\* still makes
Invocation(op, pc, config, c, b, result, headers, left) ==
    [op |-> op, pc |-> pc, config |-> config, cookies |-> c, b |-> b,
     result |-> result, headers |-> headers, left |-> left]

NoInvocation(left) == Invocation("none", "idle", Null, Null, 0, NoResult, Null, left)

Procs == {1, 2}

\* the invocations on the file: a read operation (get_read_cookies, then
\* _build_headers on what it returned), _cache_cookies, clear_cached_cookies
\* and the save of setup
ConfigOps == {"read", "_cache_cookies", "clear_cached_cookies", "setup"}

\* no invocation runs on the config file
ConfigIdle ==
    /\ config_file = [t |-> "missing"]
    /\ proc = [p \in Procs |-> NoInvocation(0)]
    /\ setup_done = {}

MaxCalls == 3

\* the pair the file holds when the program starts, if it holds one
CachedCookies ==
    ("read_auth_token" :> Str("auth_token@cache")) @@ ("read_ct0" :> Str("ct0@cache"))

\* the file when the program starts: missing, not JSON, or an object with
\* or without the credentials of a setup and with both cookies or neither
InitConfigFiles ==
    {[t |-> "missing"], NotJson(1), EmptyDict,
     SetupConfig(EarlierSetup), Obj(CachedCookies),
     Obj(CachedCookies @@ SetupConfig(EarlierSetup).v)}

\* the credentials of a setup the file holds: load_config accepts the file
HoldsSetup(f, run) ==
    /\ f.t = "obj"
    /\ \A k \in REQUIRED_KEYS : IsStr(dict_get(f, k, Null), run)

ConfigInit(left) ==
    /\ config_file \in InitConfigFiles
    /\ proc = [p \in Procs |-> NoInvocation(left[p])]
    /\ setup_done = IF HoldsSetup(config_file, EarlierSetup) THEN {EarlierSetup} ELSE {}

Finish(p, result, headers) ==
    [proc EXCEPT ![p] = Invocation(@.op, "idle", @.config, @.cookies, @.b,
                                   result, headers, @.left)]

\* a process starts an invocation
Invoke(p) ==
    /\ proc[p].pc = "idle"
    /\ proc[p].left > 0
    /\ \E op \in ConfigOps :
        \/ /\ op = "read"
           /\ proc' = [proc EXCEPT ![p] =
                  Invocation(op, "load", Null, Null, 0, NoResult, Null, @.left - 1)]
        \/ /\ op = "_cache_cookies"
           /\ \E c \in FoundCookies :
               proc' = [proc EXCEPT ![p] =
                  Invocation(op, "cache_read", Null, c, 0, NoResult, Null, @.left - 1)]
        \/ /\ op = "clear_cached_cookies"
           /\ proc' = [proc EXCEPT ![p] =
                  Invocation(op, "clear_read", Null, Null, 0, NoResult, Null, @.left - 1)]
        \/ /\ op = "setup"
           /\ proc' = [proc EXCEPT ![p] =
                  Invocation(op, "save_open", SetupConfig(SetupOf(p)), Null, 0,
                             NoResult, Null, @.left - 1)]
    /\ UNCHANGED <<config_file, setup_done>>
    /\ UNCHANGED nonConfigVars

\* get_read_cookies, lines 74-76: the cached pair is returned when there is one
LoadCached(p) ==
    /\ proc[p].pc = "load"
    /\ LET cached == _load_cached(config_file)
       IN proc' = IF Truthy(cached)
                  THEN Finish(p, Returned(cached), _build_headers(cached))
                  ELSE [proc EXCEPT ![p].pc = "browser", ![p].b = 1]
    /\ UNCHANGED <<config_file, setup_done>>
    /\ UNCHANGED nonConfigVars

\* get_read_cookies, lines 78-91: the next browser is asked; RuntimeError
\* after the last one
ExtractFromBrowser(p) ==
    /\ proc[p].pc = "browser"
    /\ \E jars \in [1..Len(DOMAINS) -> JarOutcomes] :
        LET c == _extract_from_browser(jars)
        IN proc' = IF Truthy(c)
                   THEN [proc EXCEPT ![p].pc = "cache_read", ![p].cookies = c]
                   ELSE IF proc[p].b < Len(BROWSERS)
                        THEN [proc EXCEPT ![p].b = @ + 1]
                        ELSE Finish(p, NoCookies, Null)
    /\ UNCHANGED <<config_file, setup_done>>
    /\ UNCHANGED nonConfigVars

\* _cache_cookies, lines 57-64: the file is read into config ({} when it is
\* missing or not JSON) and both cookies are set in it
CacheCookiesRead(p) ==
    /\ proc[p].pc = "cache_read"
    /\ LET config == IF config_file.t = "obj" THEN config_file ELSE EmptyDict
           c == proc[p].cookies
       IN proc' = [proc EXCEPT
              ![p].config = CachedConfig(config, c),
              ![p].pc = "save_open"]
    /\ UNCHANGED <<config_file, setup_done>>
    /\ UNCHANGED nonConfigVars

\* clear_cached_cookies, lines 98-105: returns when the file is missing or
\* not JSON, else both cookies are popped from config
ClearRead(p) ==
    /\ proc[p].pc = "clear_read"
    /\ proc' = IF config_file.t # "obj"
               THEN Finish(p, Returned(Null), Null)
               ELSE [proc EXCEPT
                      ![p].config = ClearedConfig(config_file),
                      ![p].pc = "save_open"]
    /\ UNCHANGED <<config_file, setup_done>>
    /\ UNCHANGED nonConfigVars

\* save_config, line 12: write_text opens the file for writing, which
\* empties it
SaveConfigOpen(p) ==
    /\ proc[p].pc = "save_open"
    /\ config_file' = NotJson(0)
    /\ proc' = [proc EXCEPT ![p].pc = "save_write"]
    /\ UNCHANGED setup_done
    /\ UNCHANGED nonConfigVars

\* save_config, lines 12-13: write_text writes the text of config from the
\* start of the file, over what another process wrote there since the file
\* was opened: a longer text keeps its end, and the file is not JSON. The
\* invocation returns.
SaveConfigWrite(p) ==
    /\ proc[p].pc = "save_write"
    /\ config_file' = IF TextSize(config_file) > TextSize(proc[p].config)
                      THEN NotJson(TextSize(config_file))
                      ELSE proc[p].config
    /\ proc' = IF proc[p].op = "read"
               THEN Finish(p, Returned(proc[p].cookies), _build_headers(proc[p].cookies))
               ELSE Finish(p, Returned(Null), Null)
    /\ setup_done' = IF proc[p].op = "setup"
                     THEN setup_done \cup {SetupOf(p)}
                     ELSE setup_done
    /\ UNCHANGED nonConfigVars

ConfigNext ==
    \E p \in Procs :
        \/ Invoke(p)
        \/ LoadCached(p)
        \/ ExtractFromBrowser(p)
        \/ CacheCookiesRead(p)
        \/ ClearRead(p)
        \/ SaveConfigOpen(p)
        \/ SaveConfigWrite(p)

-----------------------------------------------------------------------------
(* query_ids.py: discovery of the query ids from the script bundles        *)

_KNOWN_OPS ==
    {"SearchTimeline", "HomeTimeline", "HomeLatestTimeline", "TweetDetail",
     "Bookmarks", "Likes", "Following", "Followers", "UserByScreenName",
     "UserTweets"}

\* the tokens the patterns capture: operation names, known or not, and
\* query ids
OpTokens == _KNOWN_OPS \cup {"CreateTweet"}
QidTokens == {"Zq8fresh0scraped0query0id", "Ab1second0scraped0qid", "k9_third-scraped0query0id"}

\* a query id made of letters only: the patterns take [a-zA-Z0-9_-]{15,30}
LettersQid == "abcdefghijklmnopqrst"

\* str.isalpha() of a token
isalpha(s) == s \in OpTokens \cup {LettersQid}

\* a match of _QUERY_ID_PATTERNS[pat] and its two groups
Match(pat, g0, g1) == [pat |-> pat, groups |-> <<g0, g1>>]

\* lines 156-163: the operation name and the query id of a match;
\* the elif and the else branch assign the same
PairOfMatch(m) ==
    IF isalpha(m.groups[1]) /\ ~isalpha(m.groups[2])
    THEN [op_name |-> m.groups[1], query_id |-> m.groups[2]]
    ELSE [op_name |-> m.groups[2], query_id |-> m.groups[1]]

\* a scan in which the last query id matched for an operation is kept
RECURSIVE ScanMatches_lastWins(_, _, _)
ScanMatches_lastWins(ms, k, fnd) ==
    IF k > Len(ms) THEN fnd
    ELSE LET pr == PairOfMatch(ms[k])
         IN ScanMatches_lastWins(ms, k + 1,
                IF pr.op_name \in _KNOWN_OPS
                THEN (pr.op_name :> pr.query_id) @@ fnd
                ELSE fnd)

\* lines 152-166: the matches of a bundle, pattern after pattern, from match k
\* on: the first query id of a known operation is kept
RECURSIVE ScanMatches(_, _, _)
ScanMatches(ms, k, fnd) ==
    IF k > Len(ms) THEN fnd
    ELSE LET pr == PairOfMatch(ms[k])
         IN ScanMatches(ms, k + 1,
                IF pr.op_name \in _KNOWN_OPS /\ pr.op_name \notin DOMAIN fnd
                THEN (pr.op_name :> pr.query_id) @@ fnd
                ELSE fnd)

\* lines 131-137: the bundle URLs of the page, each once, in order
RECURSIVE UniqueUrls(_, _)
UniqueUrls(urls, seen) ==
    IF urls = <<>> THEN <<>>
    ELSE IF Head(urls) \in seen
         THEN UniqueUrls(Tail(urls), seen)
         ELSE <<Head(urls)>> \o UniqueUrls(Tail(urls), seen \cup {Head(urls)})

MaxBundles == 3

\* the bundles of the site, by number
UrlsTo(n) == [i \in 1..n |-> i]

\* what the patterns of _BUNDLE_URL_PATTERNS find in the front page: the
\* urls of some bundles, one of them found a second time or not
PageUrls ==
    {UrlsTo(n) : n \in 0..MaxBundles}
    \cup {<<1>> \o UrlsTo(n) : n \in 1..MaxBundles}
    \cup {<<n>> \o UrlsTo(n) : n \in 1..MaxBundles}
    \cup {UrlsTo(n) \o <<1>> : n \in 1..MaxBundles}

\* the matches in a bundle, as finditer yields them pattern after pattern
AllOps(qid) ==
    <<Match(1, qid, "SearchTimeline"), Match(1, qid, "HomeTimeline"),
      Match(1, qid, "HomeLatestTimeline"), Match(1, qid, "TweetDetail"),
      Match(1, qid, "Bookmarks"), Match(2, qid, "Likes"),
      Match(2, qid, "Following"), Match(2, qid, "Followers"),
      Match(3, "UserByScreenName", qid), Match(3, "UserTweets", qid)>>

BundleTexts ==
    {<<>>,
     <<Match(1, "Zq8fresh0scraped0query0id", "SearchTimeline")>>,
     <<Match(3, "SearchTimeline", "Ab1second0scraped0qid")>>,
     <<Match(2, "Ab1second0scraped0qid", "UserByScreenName"),
       Match(1, "Zq8fresh0scraped0query0id", "CreateTweet"),
       Match(3, "UserByScreenName", "Zq8fresh0scraped0query0id")>>,
     <<Match(3, "Likes", LettersQid), Match(1, LettersQid, "Following")>>,
     <<Match(3, "CreateTweet", "HomeLatestTimeline")>>,
     Tail(AllOps("k9_third-scraped0query0id")),
     AllOps("k9_third-scraped0query0id")}

\* a bundle download: the url, whether requests raised RequestException
\* (raise_for_status included) and the matches in the text that came
Download(url, ok, ms) == [url |-> url, ok |-> ok, matches |-> ms]

NoneFound == [op \in {} |-> ""]

\* discovery is not running
ScrapeIdle ==
    /\ s_pc = "idle"
    /\ bundle_urls = <<>>
    /\ s_idx = 0
    /\ s_found = NoneFound
    /\ s_log = <<>>
    /\ s_result = NoResult

ScrapeInit ==
    /\ s_pc = "start"
    /\ bundle_urls = <<>>
    /\ s_idx = 0
    /\ s_found = NoneFound
    /\ s_log = <<>>
    /\ s_result = NoResult

\* every remaining bundle is skipped after a failed download
NextAfterError_abort(i, n) == n + 1

\* lines 148-149: continue with the next url
NextAfterError(i, n) == i + 1

\* lines 117-137: the front page is fetched; found, still empty, is returned
\* when that fails, else the bundle urls are collected
FetchFrontPage ==
    /\ s_pc = "start"
    /\ \/ /\ s_pc' = "done"
          /\ s_result' = Returned(s_found)
          /\ UNCHANGED <<bundle_urls, s_idx>>
       \/ \E urls \in PageUrls :
            /\ bundle_urls' = UniqueUrls(urls, {})
            /\ s_idx' = 1
            /\ s_pc' = "bundles"
            /\ UNCHANGED s_result
    /\ UNCHANGED <<s_found, s_log>>
    /\ UNCHANGED nonScrapeVars

\* lines 140-170: the next bundle is downloaded and scanned; the loop ends
\* early when every known operation is found
DownloadBundle ==
    /\ s_pc = "bundles"
    /\ s_idx <= Len(bundle_urls)
    /\ \/ /\ s_log' = Append(s_log, Download(bundle_urls[s_idx], FALSE, <<>>))
          /\ s_idx' = NextAfterError(s_idx, Len(bundle_urls))
          /\ UNCHANGED <<s_found, s_pc>>
       \/ \E js \in BundleTexts :
            LET f == ScanMatches(js, 1, s_found)
            IN /\ s_log' = Append(s_log, Download(bundle_urls[s_idx], TRUE, js))
               /\ s_found' = f
               /\ IF Cardinality(DOMAIN f) >= Cardinality(_KNOWN_OPS)
                  THEN s_pc' = "return" /\ UNCHANGED s_idx
                  ELSE s_idx' = s_idx + 1 /\ UNCHANGED s_pc
    /\ UNCHANGED <<bundle_urls, s_result>>
    /\ UNCHANGED nonScrapeVars

\* line 172: return found
ScrapeReturn ==
    /\ \/ s_pc = "return"
       \/ s_pc = "bundles" /\ s_idx > Len(bundle_urls)
    /\ s_pc' = "done"
    /\ s_result' = Returned(s_found)
    /\ UNCHANGED <<bundle_urls, s_idx, s_found, s_log>>
    /\ UNCHANGED nonScrapeVars

ScrapeNext ==
    \/ FetchFrontPage
    \/ DownloadBundle
    \/ ScrapeReturn

-----------------------------------------------------------------------------
(* graphql.py: _parse_dm_inbox                                              *)

\* nothing is being parsed
DmIdle ==
    /\ d_pc = "idle"
    /\ d_data = Null
    /\ d_idx = 0
    /\ me_id = Null
    /\ latest = <<>>
    /\ d_result = NoResult

MaxEntries == 3

\* int(s) of the strings the "time" of a message is drawn from; a string
\* that is no number raises ValueError
IntOf(s) ==
    CASE s = "0" -> 0
      [] s = "5" -> 5
      [] s = "7" -> 7
      [] s = "07" -> 7
      [] s = "9" -> 9
      [] OTHER -> -1

IsNumeral(s) == IntOf(s) >= 0

\* str(n) of the timestamps
StrOf(n) ==
    CASE n = 0 -> "0"
      [] n = 5 -> "5"
      [] n = 7 -> "7"
      [] OTHER -> "9"

\* text.replace(short, expanded) on the texts of the messages
Replace(text, short, expanded) ==
    IF text = "m1 t.co/a" /\ short = "t.co/a" THEN "m1 " \o expanded
    ELSE text

\* _expand_dm_text, lines 572-580, on a message_data with at most one url
\* entity
_expand_dm_text(msg_data) ==
    LET text == dict_get(msg_data, "text", Str("")).v
        urls == dict_get(dict_get(msg_data, "entities", EmptyDict), "urls", Arr(<<>>)).v
    IN IF Len(urls) = 0 THEN text
       ELSE LET short == dict_get(urls[1], "url", Str("")).v
                expanded == dict_get(urls[1], "expanded_url", Str(short)).v
            IN IF short # "" THEN Replace(text, short, expanded) ELSE text

\* lines 595-605: the one id that is in every conversation of two, else None
MeId(conversations) ==
    LET two == {i \in 1..Len(conversations) : Len(conversations[i]) = 2}
        common == {u \in {"u1", "u2", "u3"} :
                      \A i \in two : u \in Range(conversations[i])}
    IN IF two # {} /\ Cardinality(common) = 1
       THEN Str(CHOOSE u \in common : TRUE)
       ELSE Null

\* a loop that lets a later message of the same timestamp replace the entry
Superseded_strict(cur_ts, ts) == cur_ts > ts

\* line 616: latest[conv_id]["_ts"] >= ts
Superseded(cur_ts, ts) == cur_ts >= ts

\* the position of conv_id in latest, 0 when it is not a key
KeyAt(l, conv_id) ==
    IF \E i \in 1..Len(l) : l[i].conversation_id = conv_id
    THEN CHOOSE i \in 1..Len(l) : l[i].conversation_id = conv_id
    ELSE 0

\* latest[conv_id] = e: a new key goes last, a key that is there keeps its
\* position
SetItem(l, conv_id, e) ==
    IF KeyAt(l, conv_id) = 0 THEN Append(l, e)
    ELSE [l EXCEPT ![KeyAt(l, conv_id)] = e]

\* the screen_name and name the users dict holds
UserField(users, id, field, dflt) ==
    dict_get(dict_get(users, id, EmptyDict), field, Str(dflt)).v

\* msg.get("time", "0") or "0"
TimeText(msg) ==
    LET t == dict_get(msg, "time", Str("0"))
    IN IF Truthy(t) THEN t.v ELSE "0"

\* lines 619-640: the entry made of a message
DmEntryOf(users, me, msg, msg_data, ts) ==
    LET sender_id == dict_get(msg_data, "sender_id", Str("")).v
        recipient_id == dict_get(msg_data, "recipient_id", Str("")).v
        other_id == IF Truthy(me)
                    THEN (IF sender_id = me.v THEN recipient_id ELSE sender_id)
                    ELSE sender_id
    IN [other_username |-> UserField(users, other_id, "screen_name", "unknown"),
        other_name |-> UserField(users, other_id, "name", ""),
        sender_username |-> UserField(users, sender_id, "screen_name", "unknown"),
        text |-> _expand_dm_text(msg_data),
        created_at |-> StrOf(ts),
        conversation_id |-> dict_get(msg, "conversation_id", Str("")).v,
        _ts |-> ts]

\* sorted(latest.values(), key=_ts, reverse=True): stable, entries of one
\* timestamp keep their order
RECURSIVE SortedByTs(_)
SortedByTs(l) ==
    IF Len(l) = 0 THEN <<>>
    ELSE LET first == CHOOSE i \in 1..Len(l) :
                        /\ \A j \in 1..Len(l) : l[j]._ts <= l[i]._ts
                        /\ \A j \in 1..(i - 1) : l[j]._ts < l[i]._ts
             rest == [j \in 1..(Len(l) - 1) |-> IF j < first THEN l[j] ELSE l[j + 1]]
         IN <<l[first]>> \o SortedByTs(rest)

\* del m["_ts"]
WithoutTs(e) == [k \in DOMAIN e \ {"_ts"} |-> e[k]]

\* the users and the conversations of the inbox
DmUsers ==
    Obj(("u1" :> Obj(("screen_name" :> Str("me")) @@ ("name" :> Str("Me"))))
        @@ ("u2" :> Obj("screen_name" :> Str("bob"))))

DmConversations ==
    {<<>>, <<<<"u1", "u2">>>>, <<<<"u1", "u2">>, <<"u1", "u3">>, <<"u1", "u2", "u3">>>>}

\* the message data of the message at position i: its text names the
\* position, the first one holds a link
MessageData(i) ==
    LET sender == IF i <= 3 THEN <<"u2", "u1", "u3">>[i] ELSE "u2"
        recipient == IF i <= 3 THEN <<"u1", "u2", "u1">>[i] ELSE "u1"
        ids == ("sender_id" :> Str(sender)) @@ ("recipient_id" :> Str(recipient))
    IN CASE i = 1 ->
              Obj(ids @@ ("text" :> Str("m1 t.co/a"))
                  @@ ("entities" :> Obj("urls" :> Arr(<<
                        Obj(("url" :> Str("t.co/a"))
                            @@ ("expanded_url" :> Str("example.com/a")))>>))))
         [] i = 2 -> Obj(ids @@ ("text" :> Str("m2")))
         [] i = 3 -> Obj(ids @@ ("text" :> Str("m3")))
         [] OTHER -> Obj(ids @@ ("text" :> Str("m4")))

\* a message with or without conversation_id and time
Message(conv, time, data) ==
    Obj((IF conv = "" THEN <<>> ELSE "conversation_id" :> Str(conv))
        @@ (IF time = "absent" THEN <<>> ELSE "time" :> Str(time))
        @@ (IF data = Null THEN <<>> ELSE "message_data" :> data))

\* the entries an inbox holds: one without a message, messages without
\* message data or with an empty one, and messages with data, with or
\* without conversation_id and time
EntryShape(data, conv, time) == [data |-> data, conv |-> conv, time |-> time]

EntryShapes ==
    {EntryShape("no message", "", ""), EntryShape("absent", "c1", "9"),
     EntryShape("empty", "c1", "9"), EntryShape("data", "c1", "soon")}
    \cup {EntryShape("data", "c1", time) : time \in {"absent", "5", "7", "07"}}
    \cup {EntryShape("data", "c2", time) : time \in {"5", "7"}}
    \cup {EntryShape("data", "", time) : time \in {"", "7"}}

\* the entry of a shape at position i
DmEntryAt(s, i) ==
    CASE s.data = "no message" -> EmptyDict
      [] s.data = "absent" -> Obj("message" :> Message(s.conv, s.time, Null))
      [] s.data = "empty" -> Obj("message" :> Message(s.conv, s.time, EmptyDict))
      [] OTHER -> Obj("message" :> Message(s.conv, s.time, MessageData(i)))

DmInit ==
    /\ d_pc = "start"
    /\ \E n \in 0..MaxEntries, c \in DmConversations :
        \E ss \in [1..n -> EntryShapes] :
            d_data = Obj("inbox_initial_state" :>
                         Obj(("users" :> DmUsers)
                             @@ ("entries" :> Arr([i \in 1..n |-> DmEntryAt(ss[i], i)]))
                             @@ ("conversations" :> c)))
    /\ d_idx = 0
    /\ me_id = Null
    /\ latest = <<>>
    /\ d_result = NoResult

\* the locals inbox, users and entries
Inbox == dict_get(d_data, "inbox_initial_state", EmptyDict)
Entries == dict_get(Inbox, "entries", Arr(<<>>)).v

\* lines 589-605: the locals and me_id
DmStart ==
    /\ d_pc = "start"
    /\ me_id' = MeId(dict_get(Inbox, "conversations", <<>>))
    /\ d_idx' = 1
    /\ d_pc' = "entries"
    /\ UNCHANGED <<d_data, latest, d_result>>
    /\ UNCHANGED nonDmVars

\* lines 609-640: one entry of the loop
DmEntry ==
    /\ d_pc = "entries"
    /\ d_idx <= Len(Entries)
    /\ LET msg == dict_get(Entries[d_idx], "message", EmptyDict)
           msg_data == dict_get(msg, "message_data", EmptyDict)
           conv_id == dict_get(msg, "conversation_id", Str("")).v
           at == KeyAt(latest, conv_id)
       IN IF ~Truthy(msg_data)
          THEN /\ d_idx' = d_idx + 1
               /\ UNCHANGED <<d_pc, latest, d_result>>
          ELSE IF ~IsNumeral(TimeText(msg))
          THEN /\ d_pc' = "failed"
               /\ d_result' = Raised("ValueError", "")
               /\ UNCHANGED <<d_idx, latest>>
          ELSE /\ d_idx' = d_idx + 1
               /\ latest' =
                    IF at > 0 /\ Superseded(latest[at]._ts, IntOf(TimeText(msg)))
                    THEN latest
                    ELSE SetItem(latest, conv_id,
                                 DmEntryOf(dict_get(Inbox, "users", EmptyDict), me_id,
                                           msg, msg_data, IntOf(TimeText(msg))))
               /\ UNCHANGED <<d_pc, d_result>>
    /\ UNCHANGED <<d_data, me_id>>
    /\ UNCHANGED nonDmVars

\* lines 643-646: the sorted entries without their _ts
DmReturn ==
    /\ d_pc = "entries"
    /\ d_idx > Len(Entries)
    /\ LET result == SortedByTs(latest)
       IN d_result' = Returned([i \in 1..Len(result) |-> WithoutTs(result[i])])
    /\ d_pc' = "done"
    /\ UNCHANGED <<d_data, d_idx, me_id, latest>>
    /\ UNCHANGED nonDmVars

DmNext == DmStart \/ DmEntry \/ DmReturn

-----------------------------------------------------------------------------
(* cli.py: the thread command                                               *)

\* no thread command runs
ThreadIdle ==
    /\ t_pc = "idle"
    /\ tweet_entries = <<>>
    /\ t_i = 0
    /\ media_ids = Null
    /\ prev_id = Null
    /\ t_log = <<>>
    /\ t_result = NoResult

MaxTweets == 3

\* the longest text a tweet of a thread may have (line 286)
MaxTweetLength == 280

\* ext.lower() of the extensions the paths end in
Lower(ext) == IF ext = ".PNG" THEN ".png" ELSE ext

\* a path: whether os.path.isfile holds for it, and its extension
Path(isfile, ext) == [isfile |-> isfile, ext |-> ext]

\* _validate_media_files: the first loop raises for the first path that is
\* no file or has no allowed extension, then the rules on the combination;
\* "" when nothing is raised
_validate_media_files(media) ==
    LET bad == {i \in 1..Len(media) :
                  ~media[i].isfile \/ Lower(media[i].ext) \notin ALLOWED_EXTENSIONS}
        first == CHOOSE i \in bad : \A j \in bad : i <= j
        video_or_gif == {i \in 1..Len(media) :
                  Lower(media[i].ext) \in VIDEO_EXTENSIONS \cup GIF_EXTENSIONS}
        images == {i \in 1..Len(media) : Lower(media[i].ext) \in IMAGE_EXTENSIONS}
    IN IF bad # {}
       THEN (IF ~media[first].isfile THEN "File not found"
             ELSE "Unsupported file type")
       ELSE IF video_or_gif # {} /\ Len(media) > 1
            THEN "Only 1 video or GIF allowed per post (no other media)."
       ELSE IF images # {} /\ Cardinality(images) > 4
            THEN "Maximum 4 images per post."
       ELSE ""

\* thread, lines 285-291, for one entry: the message of the ClickException,
\* "" when the entry passes
EntryError(entry) ==
    IF entry.length > MaxTweetLength THEN "Maximum is 280."
    ELSE IF Len(entry.media) > 0 THEN _validate_media_files(entry.media)
    ELSE ""

\* a post_tweet that never names a reply target
Payload_noReply(text, ids, reply_to_id) ==
    [text |-> text,
     media |-> IF Truthy(ids) THEN ids ELSE Null,
     reply |-> Null]

\* post_tweet, lines 54-58: the JSON payload of the request; a key that is
\* not set is None here
Payload(text, ids, reply_to_id) ==
    [text |-> text,
     media |-> IF Truthy(ids) THEN ids ELSE Null,
     reply |-> IF Truthy(reply_to_id) THEN reply_to_id ELSE Null]

\* a call of upload_media or post_tweet: the tweet it is made for, what is
\* sent, and the id it returned (None when it raised)
Call(kind, tweet, sent, id) == [kind |-> kind, tweet |-> tweet, sent |-> sent, id |-> id]

\* the media lists of an entry: none, valid ones, and one for every way of
\* not being valid
MediaLists ==
    LET jpg == Path(TRUE, ".jpg")
    IN {<<>>, <<jpg>>, <<Path(TRUE, ".PNG"), jpg>>, <<Path(TRUE, ".mp4")>>,
        <<Path(TRUE, ".gif"), jpg>>, <<jpg, jpg, jpg, jpg, jpg>>,
        <<jpg, Path(FALSE, ".jpg")>>, <<Path(TRUE, ".txt")>>}

\* the text of the tweet at position i
ThreadText(i) == IF i <= 3 THEN <<"first", "second", "third">>[i] ELSE "later"

\* the media id upload_media returns for the path at position k of the
\* entry at position i
MediaIdOf(i, k) ==
    IF i <= 3 THEN Str(<<<<"m1a", "m1b">>, <<"m2a", "m2b">>, <<"m3a", "m3b">>>>[i][k])
    ELSE Str(<<"m4a", "m4b">>[k])

ThreadInit ==
    /\ t_pc = "validate"
    /\ \E n \in 2..MaxTweets :
        \E ls \in [1..n -> {MaxTweetLength, MaxTweetLength + 1}],
           ms \in [1..n -> MediaLists] :
          tweet_entries = [i \in 1..n |->
                             [text |-> ThreadText(i), length |-> ls[i], media |-> ms[i]]]
    /\ t_i = 0
    /\ media_ids = Null
    /\ prev_id = Null
    /\ t_log = <<>>
    /\ t_result = NoResult

\* the ClickException the command ends with
ThreadFails(msg) ==
    /\ t_pc' = "failed"
    /\ t_result' = Raised("ClickException", msg)

\* where the loop goes for the entry at position i: lines 301-304, or the
\* end of the loop (line 323)
ThreadAt(i) ==
    IF i > Len(tweet_entries) THEN "done"
    ELSE IF Len(tweet_entries[i].media) > 0 THEN "upload"
    ELSE "post"

\* lines 284-291: every entry is validated before anything is sent
ValidateEntries ==
    /\ t_pc = "validate"
    /\ LET bad == {i \in 1..Len(tweet_entries) : EntryError(tweet_entries[i]) # ""}
       IN IF bad # {}
          THEN /\ ThreadFails(EntryError(tweet_entries[CHOOSE i \in bad : \A j \in bad : i <= j]))
               /\ UNCHANGED <<t_i, media_ids, prev_id>>
          ELSE /\ t_pc' = "load"
               /\ UNCHANGED <<t_i, media_ids, prev_id, t_result>>
    /\ UNCHANGED <<tweet_entries, t_log>>
    /\ UNCHANGED nonThreadVars

\* lines 293-301: load_config, which raises FileNotFoundError or ValueError,
\* then prev_id = None and the first entry of the loop
ThreadLoadConfig ==
    /\ t_pc = "load"
    /\ \E ok \in BOOLEAN :
        IF ok
        THEN /\ t_pc' = ThreadAt(1)
             /\ t_i' = 1
             /\ media_ids' = Null
             /\ prev_id' = Null
             /\ t_result' = IF ThreadAt(1) = "done" THEN Returned(Null) ELSE t_result
        ELSE /\ ThreadFails("Config")
             /\ UNCHANGED <<t_i, media_ids, prev_id>>
    /\ UNCHANGED <<tweet_entries, t_log>>
    /\ UNCHANGED nonThreadVars

\* _upload_media_files, lines 162-166, called at line 304: upload_media for
\* the next path of the entry; an exception ends the command (lines 314-321)
UploadMediaFile ==
    /\ t_pc = "upload"
    /\ LET media == tweet_entries[t_i].media
           done == IF media_ids = Null THEN <<>> ELSE media_ids.v
           k == Len(done) + 1
       IN \E ok \in BOOLEAN :
            IF ok
            THEN /\ t_log' = Append(t_log, Call("upload", t_i, media[k], MediaIdOf(t_i, k)))
                 /\ media_ids' = Arr(Append(done, MediaIdOf(t_i, k)))
                 /\ t_pc' = IF k = Len(media) THEN "post" ELSE "upload"
                 /\ UNCHANGED t_result
            ELSE /\ t_log' = Append(t_log, Call("upload", t_i, media[k], Null))
                 /\ ThreadFails("Failed to post tweet")
                 /\ UNCHANGED media_ids
    /\ UNCHANGED <<tweet_entries, t_i, prev_id>>
    /\ UNCHANGED nonThreadVars

\* what the POST of post_tweet is answered: a tweet id, 401 or 403
\* (PermissionError), another error status, or a 200 without data.id
PostAnswers == {"id_a", "id_b", "401", "403", "500", "no id"}

\* lines 306-313 and 314-321: post_tweet with reply_to_id = prev_id, then
\* prev_id = data["id"] and the next entry; an exception ends the command
PostTweet ==
    /\ t_pc = "post"
    /\ \E answer \in PostAnswers :
        LET sent == Payload(tweet_entries[t_i].text, media_ids, prev_id)
        IN IF answer \in {"id_a", "id_b"}
           THEN /\ t_log' = Append(t_log, Call("post", t_i, sent, Str(answer)))
                /\ prev_id' = Str(answer)
                /\ t_i' = t_i + 1
                /\ media_ids' = Null
                /\ t_pc' = ThreadAt(t_i + 1)
                /\ t_result' = IF ThreadAt(t_i + 1) = "done" THEN Returned(Null)
                               ELSE t_result
           ELSE /\ t_log' = Append(t_log, Call("post", t_i, sent, Null))
                /\ ThreadFails(IF answer \in {"401", "403"} THEN "PermissionError"
                               ELSE "Failed to post tweet")
                /\ UNCHANGED <<t_i, media_ids, prev_id>>
    /\ UNCHANGED tweet_entries
    /\ UNCHANGED nonThreadVars

ThreadNext == ValidateEntries \/ ThreadLoadConfig \/ UploadMediaFile \/ PostTweet

-----------------------------------------------------------------------------
(* The specifications                                                      *)

InitUpload ==
    UploadInit /\ CacheIdle /\ ParseIdle /\ ReadIdle /\ ConfigIdle /\ ScrapeIdle
    /\ DmIdle /\ ThreadIdle
SpecUpload == InitUpload /\ [][UploadNext]_vars

\* the upload with every step taken in the end: the calls are made one
\* after the other by one thread and every request returns or times out
SpecUploadLive == InitUpload /\ [][UploadNext]_vars /\ WF_vars(UploadNext)

InitCache ==
    CacheInit /\ UploadIdle /\ ParseIdle /\ ReadIdle /\ ConfigIdle /\ ScrapeIdle
    /\ DmIdle /\ ThreadIdle
SpecCache == InitCache /\ [][CacheNext]_vars

InitParse ==
    ParseInit /\ UploadIdle /\ CacheIdle /\ ReadIdle /\ ConfigIdle /\ ScrapeIdle
    /\ DmIdle /\ ThreadIdle
SpecParse == InitParse /\ [][ParseNext]_vars

InitExtract ==
    ExtractInit /\ UploadIdle /\ CacheIdle /\ ReadIdle /\ ConfigIdle /\ ScrapeIdle
    /\ DmIdle /\ ThreadIdle

\* the read operations from the response on
SpecExtract == InitExtract /\ [][ExtractNext]_vars

InitRead ==
    ReadInit /\ UploadIdle /\ ParseIdle /\ ConfigIdle /\ ScrapeIdle
    /\ DmIdle /\ ThreadIdle
SpecRead == InitRead /\ [][ReadNext]_vars

InitCookies == ConfigInit([p \in Procs |-> IF p = 1 THEN MaxCalls ELSE 0])
               /\ UploadIdle /\ CacheIdle /\ ParseIdle /\ ReadIdle /\ ScrapeIdle /\ DmIdle /\ ThreadIdle

\* one process making invocations on the config file one after the other
SpecCookies == InitCookies /\ [][ConfigNext]_vars

InitConfig == ConfigInit([p \in Procs |-> 1])
              /\ UploadIdle /\ CacheIdle /\ ParseIdle /\ ReadIdle /\ ScrapeIdle /\ DmIdle /\ ThreadIdle

\* two processes, each making one invocation on the config file
SpecConfig == InitConfig /\ [][ConfigNext]_vars

InitScrape ==
    ScrapeInit /\ UploadIdle /\ CacheIdle /\ ParseIdle /\ ReadIdle /\ ConfigIdle
    /\ DmIdle /\ ThreadIdle

\* one run of _scrape_fresh_ids
SpecScrape == InitScrape /\ [][ScrapeNext]_vars

InitFind ==
    FindInit /\ UploadIdle /\ CacheIdle /\ ReadIdle /\ ConfigIdle /\ ScrapeIdle
    /\ DmIdle /\ ThreadIdle

\* _find_instructions on one response
SpecFind == InitFind /\ [][FindNext]_vars

InitDm ==
    DmInit /\ UploadIdle /\ CacheIdle /\ ParseIdle /\ ReadIdle /\ ConfigIdle
    /\ ScrapeIdle /\ ThreadIdle

\* _parse_dm_inbox on one inbox
SpecDm == InitDm /\ [][DmNext]_vars

InitThread ==
    ThreadInit /\ UploadIdle /\ CacheIdle /\ ParseIdle /\ ReadIdle /\ ConfigIdle
    /\ ScrapeIdle /\ DmIdle

\* one run of the thread command
SpecThread == InitThread /\ [][ThreadNext]_vars



-----------------------------------------------------------------------------
(* Properties of the upload engine                                         *)

RECURSIVE SumN(_)
SumN(sq) == IF sq = <<>> THEN 0 ELSE Head(sq).n + SumN(Tail(sq))

IsAppend(e) == e.ev = "APPEND"
IsRequest(e) == e.ev # "SLEEP"
Appends == SelectSeq(u_log, IsAppend)
Requests == SelectSeq(u_log, IsRequest)
CeilDiv(a, b) == (a + b - 1) \div b
HasEvent(e) == \E i \in 1..Len(u_log) : u_log[i].ev = e
Chunked == u_log # <<>> /\ u_log[1].ev # "SIMPLE"

\* C6: in a chunked upload of a file of S > 0 bytes the i-th APPEND (from 0)
\* carries segment_index i and C bytes, except the last of the ceil(S/C)
\* segments, which carries S - (n-1)*C bytes; once the APPEND loop has ended
\* (FINALIZE was sent) exactly ceil(S/C) APPENDs were issued and their sizes
\* sum to the total_bytes declared in INIT.
C6_Segments ==
    (Chunked /\ file.size > 0) =>
        LET S == file.size
            C == CHUNK_SIZE
            n == CeilDiv(S, C)
        IN /\ Len(Appends) <= n
           /\ \A i \in 1..Len(Appends) :
                /\ Appends[i].idx = i - 1
                /\ Appends[i].n = (IF i < n THEN C ELSE S - (n - 1) * C)
           /\ HasEvent("FINALIZE") =>
                /\ Len(Appends) = n
                /\ SumN(Appends) = u_log[1].n
                /\ u_log[1].ev = "INIT"

\* the 10 MB file of the specification: segments 0,1,2 of 4 MB, 4 MB, 2 MB
C6_Witness ==
    /\ file.size = 10 * 1024 * 1024
    /\ HasEvent("FINALIZE")
    /\ Len(Appends) = 3
    /\ Appends[3].idx = 2
    /\ Appends[3].n = 2 * 1024 * 1024

PhaseRank(e) ==
    CASE e = "INIT" -> 0
      [] e = "APPEND" -> 1
      [] e = "FINALIZE" -> 2
      [] e = "STATUS" -> 3
      [] OTHER -> 4

C7_Order ==
    Chunked =>
        /\ Requests[1].ev = "INIT"
        /\ \A i \in 1..Len(Requests) :
            /\ Requests[i].ev \in {"INIT", "APPEND", "FINALIZE", "STATUS"}
            /\ Requests[i].ev = "INIT" => i = 1
            /\ \A j \in 1..Len(Requests) :
                 i < j => PhaseRank(Requests[i].ev) <= PhaseRank(Requests[j].ev)
            /\ \A j \in 1..Len(Requests) :
                 (i < j /\ Requests[i].ev = "FINALIZE") => Requests[j].ev = "STATUS"
            \* a non-success answer is the last thing that happens
            /\ Requests[i].status # "ok" =>
                 /\ i = Len(Requests)
                 /\ u_log[Len(u_log)] = Requests[i]
                 /\ u_pc = "failed"
                 /\ u_result.kind = "raised"
            /\ Requests[i].ev = "STATUS" =>
                 \E k \in 1..(i - 1) :
                     Requests[k].ev = "FINALIZE" /\ Requests[k].status = "ok"

\* C7: a chunked upload sends INIT first and once, then APPENDs, then at most
\* one FINALIZE (only after every APPEND succeeded), then STATUS polls (only
\* after FINALIZE succeeded); a non-success answer in any phase ends the
\* upload with an error and no later request; nothing is sent after the
\* upload has returned or failed.
C7_Phases ==
    /\ []C7_Order
    /\ [][(u_pc \in {"done", "failed"}) => (u_log' = u_log /\ u_pc' = u_pc)]_vars

C7_Witness ==
    /\ u_pc = "done"
    /\ Len(Requests) = 5
    /\ Requests[1].ev = "INIT"
    /\ Requests[2].ev = "APPEND"
    /\ Requests[3].ev = "APPEND"
    /\ Requests[4].ev = "FINALIZE"
    /\ Requests[5].ev = "STATUS"

\* the message the server gave with a failed state, if any
ServerMessage(pi) ==
    IF "error" \in DOMAIN pi.v /\ "message" \in DOMAIN pi.v["error"].v
    THEN pi.v["error"].v["message"].v
    ELSE "Unknown error"

FailedObserved ==
    /\ processing_info.t = "obj"
    /\ "state" \in DOMAIN processing_info.v
    /\ processing_info.v["state"] = Str("failed")

C9_PathChoice ==
    /\ (file.ext \in IMAGE_EXTENSIONS /\ file.size < SIMPLE_UPLOAD_MAX_BYTES) =>
         /\ Len(u_log) <= 1
         /\ \A i \in 1..Len(u_log) : u_log[i].ev = "SIMPLE"
         /\ u_pc # "start" => Len(u_log) = 1
    /\ (file.ext \in VIDEO_EXTENSIONS \cup GIF_EXTENSIONS) =>
         /\ \A i \in 1..Len(u_log) : u_log[i].ev # "SIMPLE"
         /\ u_pc # "start" => (u_log # <<>> /\ u_log[1].ev = "INIT")

C9_Witness ==
    /\ file.ext = ".gif"
    /\ file.size = 1
    /\ u_pc = "done"
    /\ u_log[1].ev = "INIT"
    /\ u_log[2].ev = "APPEND"

\* the FINALIZE answer has just come, with 2xx: nothing followed it yet
FinalizeAnswered ==
    /\ u_pc = "poll"
    /\ u_log[Len(u_log)].ev = "FINALIZE"

\* the answer carried no processing metadata, or the state "succeeded"
NoProcessingNeeded(pi) ==
    pi = Null \/ IsStr(dict_get(pi, "state", Null), "succeeded")

\* C21: when the FINALIZE response carries no processing metadata, or
\* carries the state "succeeded", the chunked upload returns the media id
\* obtained from INIT at once: the next step is the return, with no sleep
\* and no STATUS request before it
C21_ReturnsAtOnce ==
    [][FinalizeAnswered /\ NoProcessingNeeded(processing_info)
         => /\ u_pc' = "done"
            /\ u_result' = Returned(media_id)
            /\ u_log' = u_log
            /\ ~HasEvent("SLEEP") /\ ~HasEvent("STATUS")]_vars

\* a chunked upload whose FINALIZE answer carried state "succeeded"
\* returned the media id after INIT, one APPEND and FINALIZE alone
C21_Witness ==
    /\ u_pc = "done"
    /\ Chunked
    /\ u_log[Len(u_log)].ev = "FINALIZE"
    /\ processing_info = Obj("state" :> Str("succeeded"))
    /\ u_result = Returned(media_id)
    /\ media_id \in MediaIds
    /\ ~HasEvent("SLEEP") /\ ~HasEvent("STATUS")

\* C22: a chunked upload whose FINALIZE response carried processing
\* metadata with a state other than "succeeded" (so that it polled) returns
\* the media id only after a STATUS response reported the state
\* "succeeded": it never returns on a STATUS response that reports another
\* state or no state at all
C22_ReturnsOnSucceededOnly ==
    (u_pc = "done" /\ HasEvent("STATUS")) =>
        IsStr(dict_get(processing_info, "state", Null), "succeeded")

\* the upload polled once, the STATUS answer carried no processing_info,
\* and the upload returned the media id
C22_Witness ==
    /\ u_pc = "done"
    /\ StatusCount = 1
    /\ u_log[Len(u_log)].ev = "STATUS"
    /\ processing_info = Null
    /\ u_result = Returned(media_id)

\* a STATUS answer with processing metadata that has a state other than
\* "succeeded", or no state, never ends the upload with success
ReturnsNotOnOtherState ==
    (u_pc = "done" /\ HasEvent("STATUS") /\ Truthy(processing_info)) =>
        IsStr(dict_get(processing_info, "state", Null), "succeeded")

\* the event the step has just logged, if it logged one
Logged(e) == Len(u_log') = Len(u_log) + 1 /\ u_log'[Len(u_log')].ev = e

\* the state of processing metadata is terminal
TerminalState(pi) ==
    Truthy(pi) /\ (IsStr(dict_get(pi, "state", Null), "succeeded")
                    \/ IsStr(dict_get(pi, "state", Null), "failed"))

\* the seconds processing metadata asks to wait
AskedWait(pi) ==
    IF "check_after_secs" \in DOMAIN pi.v THEN pi.v["check_after_secs"].v ELSE 5

\* what a step of the poll loop does with sleeps
SleepStep ==
    /\ Logged("SLEEP") =>
          /\ u_pc = "poll"
          /\ ~TerminalState(processing_info)
          /\ u_log'[Len(u_log')].n = AskedWait(processing_info)
          /\ processing_info' = processing_info
    /\ (u_log # <<>> /\ u_log[Len(u_log)].ev = "SLEEP" /\ u_log' # u_log) =>
          Logged("STATUS")
    /\ (u_pc = "poll" /\ TerminalState(processing_info)) => u_log' = u_log

\* C33: every STATUS request comes directly after one sleep, and not after
\* two; a sleep lasts the check_after_secs of the processing metadata
\* received last, 5 seconds when it has none; a sleep is followed by the
\* STATUS request and nothing else; and after metadata with a terminal
\* state no sleep and no request follows.
C33_OneSleepPerStatus ==
    /\ [](\A i \in 1..Len(u_log) :
            u_log[i].ev = "STATUS" =>
                /\ i > 2
                /\ u_log[i-1].ev = "SLEEP"
                /\ u_log[i-2].ev # "SLEEP")
    /\ [][SleepStep]_vars

\* two polls: the first sleep lasted the 2 seconds FINALIZE asked for, the
\* second the default, as the first STATUS answer named no interval
C33_Witness ==
    /\ StatusCount = 2
    /\ Len(u_log) > 4
    /\ u_log[Len(u_log)].ev = "STATUS"
    /\ u_log[Len(u_log) - 1] = Ev("SLEEP", 0, 5, media_category(file.ext), "ok")
    /\ u_log[Len(u_log) - 2].ev = "STATUS"
    /\ u_log[Len(u_log) - 3] = Ev("SLEEP", 0, 2, media_category(file.ext), "ok")
    /\ u_log[Len(u_log) - 4].ev = "FINALIZE"

\* upload_media has returned or raised
UploadEnded == u_pc \in {"done", "failed"}

\* processing metadata with a state that is neither "succeeded" nor "failed"
StillProcessing(pi) ==
    /\ Truthy(pi)
    /\ dict_get(pi, "state", Null) # Null
    /\ ~TerminalState(pi)

\* the loop goes on: the upload does not end, and what it does is sleep
KeepsPolling ==
    (u_pc = "poll" /\ StillProcessing(processing_info)) =>
        /\ ~UploadEnded'
        /\ Logged("SLEEP")

\* the server has answered MaxPolls STATUS requests and is still processing
NoTerminalStateYet ==
    u_pc = "poll" /\ StatusCount = MaxPolls /\ PollCondition(processing_info)
    /\ ~PollFailed(processing_info)

\* C34: the poll loop has no attempt limit: on a state that is present and
\* neither "succeeded" nor "failed" the upload never ends, it sleeps and
\* polls again; once the server reports a terminal state the upload ends,
\* with the media id or an error; and every upload ends unless the server
\* has not reported a terminal state.
C34_PollsUntilTerminal ==
    /\ [][KeepsPolling]_vars
    /\ (u_pc = "poll" /\ TerminalState(processing_info)) ~> UploadEnded
    /\ <>(UploadEnded \/ NoTerminalStateYet)

\* the upload polled MaxPolls times on "in_progress" and returned when the
\* last answer said "succeeded"
C34_Witness ==
    /\ u_pc = "done"
    /\ StatusCount = MaxPolls
    /\ u_log[Len(u_log)].ev = "STATUS"
    /\ IsStr(dict_get(processing_info, "state", Null), "succeeded")
    /\ u_result = Returned(media_id)

\* C26: a static-image file whose size is not below the simple-upload
\* threshold, a file of exactly the threshold size (5242880 bytes)
\* included, goes through INIT/APPEND/FINALIZE and never through the
\* single-request upload
C26_ThresholdChunked ==
    (file.ext \in IMAGE_EXTENSIONS /\ file.size >= SIMPLE_UPLOAD_MAX_BYTES) =>
        /\ ~HasEvent("SIMPLE")
        /\ u_pc # "start" => (u_log # <<>> /\ u_log[1].ev = "INIT")

\* a .png of exactly 5242880 bytes was uploaded with the single request
C26_Witness ==
    /\ file.ext = ".png"
    /\ file.size = SIMPLE_UPLOAD_MAX_BYTES
    /\ u_pc = "done"
    /\ u_log = <<Ev("SIMPLE", 0, SIMPLE_UPLOAD_MAX_BYTES, "tweet_image", "ok")>>

\* C26, amended: a static image above the threshold goes through
\* INIT/APPEND/FINALIZE and never through the single request; a static
\* image of exactly the threshold size goes through the single request
C26_ThresholdInclusive ==
    /\ (file.ext \in IMAGE_EXTENSIONS /\ file.size > SIMPLE_UPLOAD_MAX_BYTES) =>
         /\ ~HasEvent("SIMPLE")
         /\ u_pc # "start" => (u_log # <<>> /\ u_log[1].ev = "INIT")
    /\ (file.ext \in IMAGE_EXTENSIONS /\ file.size = SIMPLE_UPLOAD_MAX_BYTES) =>
         /\ Len(u_log) <= 1
         /\ u_pc # "start" => (Len(u_log) = 1 /\ u_log[1].ev = "SIMPLE")

-----------------------------------------------------------------------------
(* Properties of the query-id resolver                                     *)

FirstIndex(sq, x) ==
    CHOOSE k \in 1..Len(sq) : sq[k] = x /\ \A m \in 1..(k - 1) : sq[m] # x

\* ids is hc without its repetitions, first occurrences in order
IsDedupOf(ids, hc) ==
    /\ \A i, j \in 1..Len(ids) : i # j => ids[i] # ids[j]
    /\ Range(ids) = Range(hc)
    /\ \A i, j \in 1..Len(ids) :
         i < j => FirstIndex(hc, ids[i]) < FirstIndex(hc, ids[j])

\* the cache file cannot serve a call made at time t: it is missing or
\* unreadable, has no _scraped_at, or is more than the TTL old
CacheUnusable(f, t) ==
    \/ f.t # "obj"
    \/ "_scraped_at" \notin DOMAIN f.v
    \/ t - f.v["_scraped_at"].v > _CACHE_TTL

\* C5: get_query_ids never returns an identifier from a cache whose
\* _scraped_at is more than 86400 s before the call; with the cache expired,
\* missing, unreadable or without timestamp it returns exactly the
\* de-duplicated hardcoded list.
C5_ExpiredCacheIgnored ==
    (q_last.fn = "get_query_ids") =>
        /\ CacheUnusable(cache_file, q_last.at) =>
             IsDedupOf(q_last.ids, q_last.hardcoded)
        /\ \A i \in 1..Len(q_last.ids) :
             q_last.ids[i] \notin Range(q_last.hardcoded) =>
                 ~CacheUnusable(cache_file, q_last.at)

\* a cache one second past the TTL that holds a scraped identifier for the
\* operation, and the call returned the two hardcoded identifiers only
C5_Witness ==
    /\ q_last.fn = "get_query_ids"
    /\ q_last.op = "SearchTimeline"
    /\ cache_file.t = "obj"
    /\ "_scraped_at" \in DOMAIN cache_file.v
    /\ q_last.at - cache_file.v["_scraped_at"].v = _CACHE_TTL + 1
    /\ "SearchTimeline" \in DOMAIN cache_file.v
    /\ cache_file.v["SearchTimeline"] = Str(ScrapedQid)
    /\ q_last.ids = QUERY_IDS["SearchTimeline"]

\* the identifier a usable cache file holds for op, as a list of at most one
CachedFor(f, t, op) ==
    IF ~CacheUnusable(f, t) /\ op \in DOMAIN f.v /\ Truthy(f.v[op])
    THEN <<f.v[op].v>>
    ELSE <<>>

\* C16: get_query_ids sends no HTTP request and returns the identifier of a
\* fresh cache first, when there is one, then the hardcoded identifiers in
\* their order, each identifier once
C16_CachedThenHardcoded ==
    (q_last.fn = "get_query_ids") =>
        /\ ~q_last.network
        /\ IsDedupOf(q_last.ids,
                     CachedFor(cache_file, q_last.at, q_last.op) \o q_last.hardcoded)

\* the fresh cache holds the second hardcoded identifier of the operation:
\* it comes first and is not repeated
C16_Witness ==
    /\ q_last.fn = "get_query_ids"
    /\ q_last.op = "SearchTimeline"
    /\ CachedFor(cache_file, q_last.at, "SearchTimeline")
         = <<QUERY_IDS["SearchTimeline"][2]>>
    /\ q_last.ids = <<QUERY_IDS["SearchTimeline"][2], QUERY_IDS["SearchTimeline"][1]>>

\* this step is a call of scrape_query_ids
ScrapeStep == q_last'.fn = "scrape_query_ids" /\ now' = now

\* the discovered identifier of the operation, as a list of at most one
DiscoveredFor(fresh, op) ==
    IF op \in DOMAIN fresh.v /\ Truthy(fresh.v[op]) THEN <<fresh.v[op].v>> ELSE <<>>

\* what scrape_query_ids returned: the discovered identifier first, then the
\* hardcoded ones, each identifier once
C17_Returned ==
    (q_last.fn = "scrape_query_ids") =>
        IsDedupOf(q_last.ids, DiscoveredFor(q_last.fresh, q_last.op) \o q_last.hardcoded)

\* the cache file holds the whole discovered mapping under the time of the
\* call, and serves each discovered operation within the TTL
Persisted(f, fresh, t) ==
    /\ f = Obj(fresh.v @@ ("_scraped_at" :> Num(t)))
    /\ \A op \in DOMAIN fresh.v, t2 \in Clock :
         (t2 >= t /\ t2 - t <= _CACHE_TTL) =>
             CachedFor(f, t2, op) = <<fresh.v[op].v>>

InvalidateStep == q_last'.fn = "invalidate_cache" /\ now' = now

\* C18: invalidate_cache leaves no cache file, also when there was none;
\* from then on no file with identifiers exists until a scrape_query_ids
\* call found identifiers and wrote them, and get_query_ids without such a
\* file returns the hardcoded identifiers only
C18_InvalidateClears ==
    /\ [][InvalidateStep => cache_file' = MissingFile]_vars
    /\ [][cache_file.t # "obj" /\ cache_file'.t = "obj" =>
            ScrapeStep /\ Truthy(q_last'.fresh) /\ q_last'.write = "written"]_vars
    /\ [](q_last.fn = "get_query_ids" /\ cache_file.t # "obj" =>
            IsDedupOf(q_last.ids, q_last.hardcoded))

\* right after invalidate_cache, get_query_ids returned
\* the two hardcoded identifiers
C18_Witness ==
    /\ q_last.fn = "get_query_ids"
    /\ q_last.prev = "invalidate_cache"
    /\ cache_file = MissingFile
    /\ q_last.op = "SearchTimeline"
    /\ q_last.ids = QUERY_IDS["SearchTimeline"]


-----------------------------------------------------------------------------
(* Properties of the normalizer                                            *)

\* the fields a node of shape p holds itself
OwnFields(p) ==
    [id |-> Str(IF p.idloc = "none" THEN "" ELSE TweetId(p.who)),
     text |-> Str(TweetText(p.who)),
     author |-> Obj([username |-> Str(IF p.userloc = "none" THEN "" ELSE Username(p.who)),
                     name |-> Str(IF p.userloc = "none" THEN "" ELSE DisplayName(p.who))]),
     createdAt |-> Str(IF p.full THEN CreatedAt(p.who) ELSE ""),
     replyCount |-> Num(IF p.full THEN Count(p.who, 1) ELSE 0),
     likeCount |-> Num(IF p.full THEN Count(p.who, 2) ELSE 0),
     retweetCount |-> Num(IF p.full THEN Count(p.who, 3) ELSE 0),
     viewCount |-> Num(IF p.full THEN IntOfStr[Views(p.who)] ELSE 0)]

\* the node carries a non-empty retweeted_status_result.result
IsRepost(sh) == sh.rt \in {"inner", "inner_visibility"}

\* C10: for a node with a non-empty inner retweeted-status result the record
\* has retweetedBy = the outer node's author username and id, text, author,
\* creation time and all counts of the inner node (a visibility wrapper on
\* the inner node is stepped through); for any other node retweetedBy is
\* null and every field is the node's own.  A record is produced whenever
\* the node the content is read from has a text.
C10_RepostAttribution ==
    (n_pc = "parsed") =>
        LET src == IF IsRepost(n_in) THEN n_in.inner ELSE n_in.outer
        IN /\ src.text = "present" => parsed.t = "obj"
           /\ parsed.t = "obj" =>
                /\ parsed.v.retweetedBy =
                     (IF IsRepost(n_in)
                      THEN OwnFields(n_in.outer).author.v.username
                      ELSE Null)
                /\ \A k \in DOMAIN OwnFields(src) : parsed.v[k] = OwnFields(src)[k]

\* the example of the specification: alice reposts bob's "hello"
C10_Witness ==
    /\ n_pc = "parsed"
    /\ n_in.rt = "inner_visibility"
    /\ n_in.outer.text = "present"
    /\ parsed.t = "obj"
    /\ parsed.v.text = Str("hello")
    /\ parsed.v.author.v.username = Str("bob")
    /\ parsed.v.retweetedBy = Str("alice")
    /\ parsed.v.id = Str("200")

-----------------------------------------------------------------------------
(* Properties of the extraction and the public read operations' results    *)

\* the positions of a timeline response in extraction order: the entry of
\* the first instruction counts when that instruction adds entries
ActivePositions(x) ==
    IF x.itype = "TimelineAddEntries" THEN <<1, 2, 3, 4, 5>> ELSE <<2, 3, 4, 5>>

\* the tweet item at position k cannot be parsed
Unparseable(x, k) == x.slots[k] \in {"bad_legacy", "bad_views"}

\* the tweet item at position k resolves to a non-empty text
HasText(x, k) == x.slots[k] \in {"tweet", "repost"}

\* the id and the text of the record the tweet item at position k stands for
ExpectedTweet(x, k) ==
    IF x.slots[k] = "repost" THEN <<Str(InnerId(k)), Str(InnerText(k))>>
    ELSE <<Str(SlotId(k)), Str(SlotText(k))>>

\* the expected <<id, text>> pairs of the positions ks, in order, taking
\* the items with a non-empty text that can be parsed
RECURSIVE ExpectedTweets(_, _)
ExpectedTweets(x, ks) ==
    IF ks = <<>> THEN <<>>
    ELSE (IF HasText(x, Head(ks)) THEN <<ExpectedTweet(x, Head(ks))>> ELSE <<>>)
         \o ExpectedTweets(x, Tail(ks))

\* the <<id, text>> pairs of a list of records
IdText(r) == IF r.t = "obj" THEN <<r.v.id, r.v.text>> ELSE <<Null, Null>>
IdTexts(lst) == [i \in 1..Len(lst.v) |-> IdText(lst.v[i])]

TweetCalls == {"timeline_tweets", "search", "read_tweet"}

\* a tweet-returning operation has run on a GraphQL response
ExtractedTweets ==
    n_pc = "parsed" /\ n_in.fn = "tweets" /\ parsed.fn \in TweetCalls

\* every item of the response can be parsed
AllParseable ==
    \A i \in 1..Len(ActivePositions(n_in)) :
        ~Unparseable(n_in, ActivePositions(n_in)[i])

ReturnedRecords(out) ==
    CASE out.t = "arr" -> Range(out.v)
      [] out.t = "obj" -> {out}
      [] OTHER -> {}

\* a tweet-returning operation has returned, on either path of search
ReturnedTweets == n_pc = "parsed" /\ parsed.fn \in TweetCalls

\* C12: every Tweet record returned to a caller by a tweet-returning read
\* operation (search and get_mentions, the timeline operations, read_tweet),
\* on every code path including the search fallback, has a non-empty text
C12_TextNeverEmpty ==
    ReturnedTweets =>
        \A r \in ReturnedRecords(parsed.out) : Truthy(dict_get(r, "text", Null))

\* search fell back to the v1.1 endpoint, whose first status had an empty
\* full_text, and returned a record with an empty text
C12_Witness ==
    /\ ReturnedTweets
    /\ parsed.fn = "search"
    /\ parsed.path = "v1"
    /\ parsed.count >= 1
    /\ parsed.out.t = "arr"
    /\ parsed.out.v[1].v.id = Str("t1")
    /\ parsed.out.v[1].v.text = Str("")

\* the GraphQL path alone: the records extracted from a timeline response
\* all have a non-empty text
GraphqlTextNonEmpty ==
    ReturnedTweets /\ parsed.path = "graphql" =>
        \A r \in ReturnedRecords(parsed.out) : Truthy(dict_get(r, "text", Null))

\* C13: when one item of a timeline response is unparseable (its parsing
\* raises: a field that should be an object is null, a view count is not
\* numeric), normalization drops only that item and still returns the
\* records of all other items; the extraction as a whole does not fail
C13_BadItemDropped ==
    ExtractedTweets /\ ~AllParseable =>
        /\ ~IsRaise(parsed.extracted)
        /\ IdTexts(parsed.extracted) = ExpectedTweets(n_in, ActivePositions(n_in))

\* a timeline of five tweets whose second has null where its legacy object
\* should be: the timeline operation raised and returned no record
C13_Witness ==
    /\ ExtractedTweets
    /\ parsed.fn = "timeline_tweets"
    /\ n_in.itype = "TimelineAddEntries"
    /\ n_in.slots = <<"tweet", "bad_legacy", "tweet", "tweet", "tweet">>
    /\ IsRaise(parsed.extracted)
    /\ IsRaise(parsed.out)

\* the first count elements of a sequence
Prefix(sq, count) == SubSeq(sq, 1, Min(count, Len(sq)))

\* the user item at position k yields a record: it has a username
HasUsername(x, k) == x.slots[k] \in {"core", "legacy", "both", "core_empty"}

\* the ids of the user records of the positions ks, in order
RECURSIVE ExpectedUsers(_, _)
ExpectedUsers(x, ks) ==
    IF ks = <<>> THEN <<>>
    ELSE (IF HasUsername(x, Head(ks)) THEN <<Str(UserId(Head(ks)))>> ELSE <<>>)
         \o ExpectedUsers(x, Tail(ks))

\* the ids of the v1.1 statuses of the positions ks, in order
RECURSIVE ExpectedStatuses(_, _)
ExpectedStatuses(x, ks) ==
    IF ks = <<>> THEN <<>>
    ELSE (IF x.slots[Head(ks)] # "none" THEN <<Str(SlotId(Head(ks)))>> ELSE <<>>)
         \o ExpectedStatuses(x, Tail(ks))

Ids(lst) == [i \in 1..Len(lst.v) |-> dict_get(lst.v[i], "id", Null)]

\* the ids of the records of the response in extraction order: instruction
\* order, then entry order, the direct item of an entry before its module
\* items. A user response is taken without module items
ExtractionOrder(x) ==
    CASE x.fn = "tweets" ->
            [i \in 1..Len(ExpectedTweets(x, ActivePositions(x))) |->
                ExpectedTweets(x, ActivePositions(x))[i][1]]
      [] x.fn = "users" -> ExpectedUsers(x, ActivePositions(x))
      [] OTHER -> ExpectedStatuses(x, <<1, 2, 3, 4, 5>>)

\* a list-returning operation has returned a list
ReturnedList ==
    /\ n_pc = "parsed"
    /\ parsed.fn \in {"timeline_tweets", "search", "timeline_users"}
    /\ parsed.out.t = "arr"

\* the response the returned list was read from has no item outside the
\* claim's words: a user response has no module items
PlainResponse ==
    /\ parsed.fn = "timeline_users" => n_in.slots[3] = "none" /\ n_in.slots[4] = "none"
    /\ parsed.fn = "search" => parsed.path = "graphql" \/ n_in.fn = "statuses"

ExpectedNames(k, loc) ==
    CASE loc \in {"core", "both"} ->
            [username |-> Str(CoreUsername(k)), name |-> Str(CoreName(k))]
      [] loc \in {"legacy", "core_empty"} ->
            [username |-> Str(LegacyUsername(k)), name |-> Str(LegacyName(k))]
      [] OTHER -> [username |-> Str(""), name |-> Str("")]

\* the position a record came from, by its id
PositionOf(id) ==
    CHOOSE k \in Slots : id \in {Str(SlotId(k)), Str(InnerId(k)), Str(UserId(k))}

NamesOf(r) == [username |-> r.v.username, name |-> r.v.name]

\* the user records of a followers or following list carry the names of
\* the newer location first
TimelineUserNames ==
    n_pc = "parsed" /\ parsed.fn = "timeline_users" /\ ~IsRaise(parsed.extracted) =>
        \A r \in Range(parsed.extracted.v) :
            NamesOf(r) = ExpectedNames(PositionOf(r.v.id), n_in.slots[PositionOf(r.v.id)])

\* the author of a tweet record carries the names of the newer location
\* first: the author of the tweet itself, of the original tweet for a repost
\* (whose user result has its names under legacy)
TweetAuthorNames ==
    ExtractedTweets /\ ~IsRaise(parsed.extracted) =>
        \A r \in Range(parsed.extracted.v) :
            LET k == PositionOf(r.v.id)
            IN /\ NamesOf(r.v.author) =
                    ExpectedNames(k, IF n_in.slots[k] = "repost" THEN "legacy"
                                     ELSE AuthorLoc(k))
               /\ n_in.slots[k] = "repost" =>
                    r.v.retweetedBy = ExpectedNames(k, AuthorLoc(k)).username

\* the record of get_user_by_screen_name carries the names of the newer
\* location first
ProfileNames ==
    n_pc = "parsed" /\ parsed.fn = "get_user_by_screen_name" /\ parsed.out.t = "obj" =>
        NamesOf(parsed.out) = ExpectedNames(1, n_in.slots[1])

\* C20: every normalized user record and tweet author, produced from a
\* timeline user entry, from a tweet node or by get_user_by_screen_name,
\* takes username and name from the newer location (core) when it holds a
\* non-empty value, otherwise from the older location (legacy), and is
\* empty only when both are missing
C20_NewerLocationFirst ==
    TimelineUserNames /\ TweetAuthorNames /\ ProfileNames

\* get_user_by_screen_name ran on a user result whose names are under core
\* only and returned a record with an empty username and an empty name
C20_Witness ==
    /\ n_pc = "parsed"
    /\ parsed.fn = "get_user_by_screen_name"
    /\ n_in.slots[1] = "core"
    /\ parsed.out.t = "obj"
    /\ parsed.out.v.id = Str(UserId(1))
    /\ parsed.out.v.username = Str("")
    /\ parsed.out.v.name = Str("")

\* the two producers that go through _extract_user_info do as C20 says
ExtractUserInfoNames == TimelineUserNames /\ TweetAuthorNames

\* a timeline was extracted, for tweets or for users, without an exception
ExtractedTimeline(fns) ==
    /\ n_pc = "parsed"
    /\ n_in.fn \in fns
    /\ parsed.fn \in {"timeline_tweets", "timeline_users"}
    /\ ~IsRaise(parsed.extracted)

\* C29: tweet extraction and user extraction return the record of a
\* module-nested sub-item like the record of a direct item: what is
\* extracted is, entry after entry, the record of the direct item and then
\* the records of the entry's sub-items, in order.
C29_ModuleItemsReturned ==
    ExtractedTimeline({"tweets", "users"}) =>
        Ids(parsed.extracted) = ExtractionOrder(n_in)

\* a user timeline whose second entry has a direct user item and two user
\* sub-items, all with a username: the direct items came out, the
\* sub-items did not
C29_Witness ==
    /\ ExtractedTimeline({"users"})
    /\ n_in.itype = "TimelineAddEntries"
    /\ \A k \in 1..5 : HasUsername(n_in, k)
    /\ Ids(parsed.extracted) = <<Str(UserId(1)), Str(UserId(2)), Str(UserId(5))>>

\* tweet extraction does return the sub-items' records, after the direct
\* item's
TweetModuleItemsReturned ==
    ExtractedTimeline({"tweets"}) =>
        Ids(parsed.extracted) = ExtractionOrder(n_in)

\* the values under the "instructions" keys of the nested dicts of data, in
\* the order the traversal meets them: the key of a dict first, then the
\* values of the dict in their order (lists are not searched)
RECURSIVE InstructionsKeys(_), InstructionsBelow(_, _)
InstructionsKeys(data) ==
    IF data.t # "obj" THEN <<>>
    ELSE (IF "instructions" \in DOMAIN data.v THEN <<data.v["instructions"]>> ELSE <<>>)
         \o InstructionsBelow(data, Keys(data))

InstructionsBelow(data, ks) ==
    IF ks = <<>> THEN <<>>
    ELSE (IF Head(ks) = "instructions" THEN <<>> ELSE InstructionsKeys(data.v[Head(ks)]))
         \o InstructionsBelow(data, Tail(ks))

FoundInstructions == n_pc = "parsed" /\ InstructionsKeys(n_in) # <<>>

\* C28: _find_instructions returns the value of the first "instructions"
\* key the traversal meets; the value of a key met later is never returned.
C28_FirstKeyWins ==
    FoundInstructions => parsed = InstructionsKeys(n_in)[1]

\* the first "instructions" key, one level down, holds an empty list and a
\* second one follows under the next key: the second one's value came back
C28_Witness ==
    /\ FoundInstructions
    /\ Keys(n_in) = <<"a", "b">>
    /\ n_in.v["a"] = Holder(Arr(<<>>))
    /\ n_in.v["b"] = Holder(Arr(<<Str("b")>>))
    /\ parsed = Arr(<<Str("b")>>)

\* the first key wins when it is a key of the response itself or its value
\* is truthy; else the first one below with a truthy value, else []
FirstTruthyWins ==
    FoundInstructions =>
        LET c == InstructionsKeys(n_in)
            truthy == {i \in 1..Len(c) : Truthy(c[i])}
        IN IF "instructions" \in DOMAIN n_in.v THEN parsed = c[1]
           ELSE IF truthy = {} THEN parsed = Arr(<<>>)
           ELSE parsed = c[CHOOSE i \in truthy : \A j \in truthy : i <= j]

-----------------------------------------------------------------------------
(* Properties of the request engine and the public read operations         *)

\* the positions inside _graphql_request
ExecutePcs == {"attempt", "refresh", "retry", "rescrape"}

\* this step sends a request to the GraphQL endpoint
GraphqlSent == hist'.sent = hist.sent + 1 /\ hist'.last.api = "graphql"

\* this step sends an HTTP request to an API endpoint
RequestSent == hist'.sent = hist.sent + 1

\* this step calls scrape_query_ids
Scraped == hist'.n_scrape = hist.n_scrape + 1

\* an exception has left _graphql_request: it sends nothing more, neither to
\* the GraphQL endpoint nor for a rescrape
ExecuteEnded ==
    g_raised # NoResult =>
        /\ r_pc' \notin ExecutePcs
        /\ g_raised' = g_raised
        /\ ~GraphqlSent
        /\ ~Scraped

\* every first request of pass 1 was sent, GET and POST for each query id,
\* and each was answered 404
FirstPassAll404 ==
    /\ pass_no = 1
    /\ query_ids # <<>>
    /\ hist.attempts1 = 2 * Len(query_ids)
    /\ ~hist.non404_1

C1_AtMostOnce ==
    /\ hist.n_scrape <= 1
    /\ r_pc \in {"attempt", "refresh", "retry"} => hist.n_scrape = pass_no - 1
    /\ FirstPassAll404 => r_pc = "rescrape" /\ hist.n_scrape = 0

\* C1: within one _graphql_request call scrape_query_ids is called at most
\* once, whatever the responses; when every first-pass request (each query
\* id, GET and POST) was answered 404 the call stands at the rescrape, the
\* next step is that one scrape and sends no request, and every second-pass
\* request is sent after it
C1_RescrapeOnce ==
    /\ []C1_AtMostOnce
    /\ [][r_pc = "rescrape" => Scraped /\ hist'.n_scrape = 1 /\ ~RequestSent]_vars
    /\ [][Scraped => r_pc = "rescrape" /\ pass_no = 1 /\ hist.n_scrape = 0]_vars
    /\ [][GraphqlSent /\ hist'.last.pass = 2 => hist.n_scrape = 1]_vars

\* a full first pass over three query ids answered 404 throughout, one
\* scrape, and a second-pass request answered 200
C1_Witness ==
    /\ r_pc = "data"
    /\ hist.attempts1 = 6
    /\ ~hist.non404_1
    /\ hist.n_scrape = 1
    /\ hist.last.pass = 2
    /\ hist.last.status = 200

\* the request that was answered 401 and is to be repeated
Pending401 ==
    /\ hist.last.api = "graphql"
    /\ hist.last.status = 401
    /\ ~hist.last.retry
    /\ hist.last.qid = query_ids[idx]
    /\ hist.last.method = method
    /\ hist.last.pass = pass_no

C2_Positions ==
    /\ r_pc = "refresh" => Pending401
    /\ r_pc = "retry" =>
        /\ Pending401
        /\ fresh_cookies = BrowserPair
        /\ config_cookies = BrowserPair

\* the retry is the pending request again: same query id, same method, same
\* pass, sent with the fresh cookies, and it is not repeated
C2_RetryStep ==
    r_pc = "retry" =>
        /\ GraphqlSent
        /\ hist'.last.retry
        /\ hist'.last.qid = hist.last.qid
        /\ hist'.last.method = hist.last.method
        /\ hist'.last.pass = hist.last.pass
        /\ hist'.last.cred = fresh_cookies
        /\ r_pc' \notin {"retry", "refresh"}
        /\ hist'.last.status = 401 =>
             g_raised' = SessionExpired /\ r_pc' \notin ExecutePcs

\* the refresh clears the cached pair and asks the provider: with a pair from
\* it the retry follows, without one the provider's error leaves the call
C2_RefreshStep ==
    r_pc = "refresh" =>
        /\ hist'.n_refresh = hist.n_refresh + 1
        /\ ~RequestSent
        /\ \/ r_pc' = "retry" /\ fresh_cookies' = BrowserPair
                /\ config_cookies' = BrowserPair
           \/ r_pc' \notin ExecutePcs /\ g_raised' = NoCookies
                /\ config_cookies' = "none"

\* C2 (amended): a first request answered 401 is followed by the refresh: the
\* cached cookies are cleared and the provider is asked for fresh ones; when
\* it supplies them the same query id is requested once more with the same
\* method and the fresh cookies, and a 401 to that request ends the call
\* with the session-expired error; when it supplies none the call ends with
\* the provider's error; after either end no request and no rescrape follows
C2_RefreshAndRetry ==
    /\ []C2_Positions
    /\ [][GraphqlSent /\ ~hist'.last.retry /\ hist'.last.status = 401
            => r_pc' = "refresh"]_vars
    /\ [][hist'.last.retry /\ hist'.last # hist.last /\ hist'.last.api = "graphql"
            => r_pc = "retry"]_vars
    /\ [][C2_RefreshStep]_vars
    /\ [][C2_RetryStep]_vars
    /\ [][ExecuteEnded]_vars

\* C2 as stated: after a 401 the fresh cookies are always obtained and the
\* retry always follows
C2_AlwaysRetried ==
    [][r_pc = "refresh" => r_pc' = "retry" /\ fresh_cookies' # "none"]_vars

\* the POST retry of a second-pass query id was answered 401 again
C2_Witness ==
    /\ g_raised = SessionExpired
    /\ hist.last.api = "graphql"
    /\ hist.last.retry
    /\ hist.last.status = 401
    /\ hist.last.method = "POST"
    /\ hist.last.pass = 2
    /\ hist.n_refresh = 1

\* C3: a 429 to any request of _graphql_request (first request or retry,
\* pass 1 or 2, GET or POST) ends the call at once with the rate-limited
\* error, and the call sends no request and starts no rescrape after it
C3_RateLimitFatal ==
    /\ [][GraphqlSent /\ hist'.last.status = 429
            => g_raised' = RateLimited /\ r_pc' \notin ExecutePcs]_vars
    /\ [][g_raised = RateLimited
            => r_pc' \notin ExecutePcs /\ g_raised' = g_raised
               /\ ~GraphqlSent /\ ~Scraped]_vars

\* the POST retry of a second-pass query id was answered 429
C3_Witness ==
    /\ g_raised = RateLimited
    /\ hist.last.api = "graphql"
    /\ hist.last.retry
    /\ hist.last.status = 429
    /\ hist.last.method = "POST"
    /\ hist.last.pass = 2

\* C4: a public read operation that received a 429 fails, and sends no
\* request after that 429
C4_RateLimitSurfaced ==
    /\ [](hist.got429 => r_pc = "failed")
    /\ [][hist.got429 => ~RequestSent]_vars

\* search received a 429 from the GraphQL endpoint, asked the v1.1 search
\* endpoint next and returned its records
C4_Witness ==
    /\ r_op = "search"
    /\ hist.got429
    /\ hist.last.api = "search_v1"
    /\ hist.last.status = 200
    /\ r_pc = "done"

\* C14: a transport error on a request of _graphql_request, the retry after
\* a credential refresh included, does not end the call with that error: the
\* loop goes on to the next query id of the round when there is one
C14_TransportSkips ==
    [][GraphqlSent /\ hist'.last.status = 0
         => /\ g_raised' # TransportError
            /\ idx < Len(query_ids) => r_pc' = "attempt" /\ idx' = idx + 1]_vars

\* the retry after a refresh met a transport error while another query id
\* was still untried, and the call ended with that error
C14_Witness ==
    /\ g_raised = TransportError
    /\ hist.last.api = "graphql"
    /\ hist.last.retry
    /\ hist.last.status = 0
    /\ idx < Len(query_ids)

\* C15: _graphql_request raises an "All query IDs failed" error only after a
\* rescrape, and only when no request of the call was answered otherwise
\* than 404
C15_ExhaustedAfterRescrape ==
    g_raised \in {ApiChanged, ApiRotated} =>
        hist.n_scrape = 1 /\ ~hist.non404

\* the "may have changed their API" error left the call in pass 1, with no
\* rescrape, after a status other than 404
C15_Witness ==
    /\ g_raised = ApiChanged
    /\ hist.n_scrape = 0
    /\ pass_no = 1
    /\ hist.last.status = 500


\* C27: within one pass of _graphql_request, the GET requests go through the
\* candidates in list order and precede every POST request; a POST request
\* is sent only when the GET for every candidate of the pass was answered
\* 404 and a request body is at hand; the POST requests go through the
\* candidates in the same order
C27_GetThenPost ==
    [][GraphqlSent =>
         /\ (hist'.last.method = "GET" /\ ~hist'.last.retry) =>
               /\ hist'.posts = 0
               /\ hist'.last.qid = query_ids[hist'.gets]
         /\ hist'.last.method = "POST" =>
               /\ HasJsonBody
               /\ hist'.gets = Len(query_ids)
               /\ ~hist'.get_non404
               /\ hist'.last.qid = query_ids[hist'.posts]
         /\ hist'.last.retry =>
               /\ hist'.last.qid = hist.last.qid
               /\ hist'.last.method = hist.last.method
               /\ hist'.gets = hist.gets /\ hist'.posts = hist.posts]_vars

\* both candidates were asked with GET and answered 404, then with POST in
\* the same order, and the second POST was answered 200
C27_Witness ==
    /\ r_pc = "data"
    /\ Len(query_ids) = 2
    /\ hist.gets = 2
    /\ ~hist.get_non404
    /\ hist.posts = 2
    /\ hist.n_req = 4
    /\ hist.last.method = "POST"
    /\ hist.last.qid = query_ids[2]
    /\ hist.last.status = 200


\* this step reports the session-expired failure
SessionExpiredRaised ==
    \/ r_result' = SessionExpired /\ r_result # SessionExpired
    \/ g_raised' = SessionExpired /\ g_raised # SessionExpired

\* a first 401 is followed by the refresh of the credentials, and the
\* session-expired failure is reported by the second 401 alone
Absorbs401 ==
    /\ (RequestSent /\ hist'.last.status = 401 /\ ~hist'.last.retry) =>
          /\ r_pc' \in {"refresh", "rest_refresh"}
          /\ r_result' = r_result /\ g_raised' = g_raised
    /\ r_pc \in {"retry", "rest_retry"} =>
          /\ RequestSent
          /\ hist'.last.retry
          /\ hist'.last.api = hist.last.api
          /\ hist'.last.qid = hist.last.qid
          /\ hist'.last.method = hist.last.method
    /\ SessionExpiredRaised =>
          RequestSent /\ hist'.last.status = 401 /\ hist'.last.retry

\* C25: every cookie-authenticated read path (the GraphQL requests, the
\* v1.1 search, the DM inbox and whoami) answers a first 401 by refreshing
\* the credentials and sending the same request once more, and reports the
\* session-expired failure only after a second 401
C25_First401Absorbed == [][Absorbs401]_vars

\* whoami sent one request, it was answered 401, and whoami raised the
\* session-expired error with the cached cookies cleared
C25_Witness ==
    /\ r_op = "whoami"
    /\ r_pc = "failed"
    /\ r_result = SessionExpired
    /\ hist.sent = 1
    /\ hist.last.api = "verify_credentials"
    /\ hist.last.status = 401
    /\ ~hist.last.retry
    /\ config_cookies = "none"

\* the paths other than whoami do as C25 says
First401AbsorbedButWhoami == [][r_op # "whoami" => Absorbs401]_vars


-----------------------------------------------------------------------------
(* Properties of the credential/session cache file                         *)

\* the session values the file holds
HeldCookies(f) ==
    IF f.t = "obj" THEN DOMAIN f.v \cap {"read_auth_token", "read_ct0"} ELSE {}

\* a dict holding a value under both cookie names
IsPair(c) ==
    /\ c.t = "obj"
    /\ DOMAIN c.v = COOKIE_NAMES
    /\ \A n \in COOKIE_NAMES : c.v[n].t = "str" /\ c.v[n].v # ""

ReadReturned(p) == proc[p].op = "read" /\ proc[p].result.kind = "returned"

\* C24: with one process making get_read_cookies, _cache_cookies,
\* clear_cached_cookies and setup calls on a file that starts with both
\* session values or neither, the file holds read_auth_token and read_ct0
\* together or neither of them in every state, so no operation writes or
\* removes one without the other; what get_read_cookies returns is a pair
\* with both values; and the Cookie header and x-csrf-token of the request
\* built from it carry the values of that pair.
C24_PairAtomic ==
    /\ HeldCookies(config_file) \in {{}, {"read_auth_token", "read_ct0"}}
    /\ \A n \in HeldCookies(config_file) : Truthy(config_file.v[n])
    /\ \A p \in Procs :
          ReadReturned(p) =>
            /\ IsPair(proc[p].result.value)
            /\ proc[p].headers.Cookie[2] = proc[p].result.value.v["auth_token"]
            /\ proc[p].headers.Cookie[4] = proc[p].result.value.v["ct0"]
            /\ proc[p].headers.x_csrf_token = proc[p].result.value.v["ct0"]

\* the third call of the process was a get_read_cookies that found no cached
\* pair, took one from a browser and cached it
C24_Witness ==
    /\ proc[1].left = 0
    /\ proc[1].pc = "idle"
    /\ ReadReturned(1)
    /\ proc[1].b > 0
    /\ HeldCookies(config_file) = {"read_auth_token", "read_ct0"}
    /\ config_file.v["read_auth_token"] = proc[1].result.value.v["auth_token"]
    /\ config_file.v["read_ct0"] = proc[1].result.value.v["ct0"]

\* both invocations have returned
BothFinished == \A p \in Procs : proc[p].pc = "idle" /\ proc[p].left = 0

\* C23: when two concurrent invocations of _cache_cookies,
\* clear_cached_cookies, get_read_cookies or the setup save have both
\* finished, the file is a JSON object and, if a setup has completed, it
\* holds the credentials a completed setup stored.
C23_CredentialsSurvive ==
    (BothFinished /\ setup_done # {}) =>
        \E run \in setup_done : HoldsSetup(config_file, run)

\* a setup completed while a _cache_cookies call was between its read and
\* its write, and both have finished
C23_Witness ==
    /\ BothFinished
    /\ proc[1].op = "setup"
    /\ proc[2].op = "_cache_cookies"
    /\ setup_done = {SetupOf(1)}
    /\ config_file.t = "obj"
    /\ HeldCookies(config_file) = {"read_auth_token", "read_ct0"}
    /\ ~HoldsSetup(config_file, SetupOf(1))

\* two concurrent setup saves leave the credentials of one of them
SetupsLeaveCredentials ==
    (BothFinished /\ proc[1].op = "setup" /\ proc[2].op = "setup") =>
        \E run \in setup_done : HoldsSetup(config_file, run)


-----------------------------------------------------------------------------
(* Properties of discovery                                                 *)

\* a bundle download failed
SomeDownloadFailed == \E i \in 1..Len(s_log) : ~s_log[i].ok

\* the positions of the matches for an operation in the bundles that were
\* downloaded: the download and the match in it
MatchesFor(op) ==
    {<<i, k>> \in (1..Len(s_log)) \X (1..Cardinality(_KNOWN_OPS)) :
        /\ s_log[i].ok
        /\ k <= Len(s_log[i].matches)
        /\ PairOfMatch(s_log[i].matches[k]).op_name = op}

Earlier(a, b) == a[1] < b[1] \/ (a[1] = b[1] /\ a[2] <= b[2])

FirstMatchFor(op) == CHOOSE a \in MatchesFor(op) : \A b \in MatchesFor(op) : Earlier(a, b)

\* the mapping of every known operation matched in a downloaded bundle to
\* the query id of its first match
FirstMatches ==
    [op \in {o \in _KNOWN_OPS : MatchesFor(o) # {}} |->
        PairOfMatch(s_log[FirstMatchFor(op)[1]].matches[FirstMatchFor(op)[2]]).query_id]

\* C30 as stated: after a failed bundle download every remaining bundle is
\* downloaded, whatever was found meanwhile.
C30_EveryRemainingBundle ==
    (s_pc = "done" /\ SomeDownloadFailed) => Len(s_log) = Len(bundle_urls)

\* C30, amended: _scrape_fresh_ids never raises; a failed front-page fetch
\* returns the empty mapping without a bundle download; a failed bundle
\* download is followed by the download of the next bundle, and the loop
\* ends before the last bundle only when every known operation is found;
\* what is returned is, for every known operation, the first query id
\* matched in the bundles that were downloaded.
C30_FailureSwallowed ==
    /\ s_result.kind \in {"none", "returned"}
    /\ s_pc = "done" =>
          /\ s_result.kind = "returned"
          /\ s_result.value = FirstMatches
          /\ bundle_urls = <<>> => s_log = <<>>
          /\ \/ Len(s_log) = Len(bundle_urls)
             \/ DOMAIN s_result.value = _KNOWN_OPS
          /\ \A i \in 1..Len(s_log) : s_log[i].url = bundle_urls[i]

\* the first bundle failed, the second one was downloaded and held every
\* known operation, and the third one was not downloaded
C30_Witness ==
    /\ s_pc = "done"
    /\ Len(bundle_urls) = MaxBundles
    /\ Len(s_log) = 2
    /\ ~s_log[1].ok
    /\ s_log[2].ok
    /\ DOMAIN s_result.value = _KNOWN_OPS

\* a failed download in the middle: the identifiers of the bundle after it
\* are returned
FailureInTheMiddle ==
    /\ s_pc = "done"
    /\ Len(s_log) = MaxBundles
    /\ s_log[1].ok /\ ~s_log[2].ok /\ s_log[3].ok
    /\ s_log[1].matches = <<>>
    /\ DOMAIN s_result.value = {"UserByScreenName"}


\* the known operations that have an identifier
Recorded(f) == DOMAIN f

\* C31: during discovery an identifier recorded for an operation is never
\* replaced, by a later bundle or by a later match of the same bundle (what
\* is recorded is the first match of the operation in the bundles
\* downloaded so far), and only known operations are recorded.
C31_FirstMatchKept ==
    /\ [](Recorded(s_found) \subseteq _KNOWN_OPS /\ s_found = FirstMatches)
    /\ [][\A op \in Recorded(s_found) :
            op \in Recorded(s_found') /\ s_found'[op] = s_found[op]]_vars

\* SearchTimeline was matched in the first bundle and again, by another
\* pattern and with another query id, in the second: the first one is returned
C31_Witness ==
    /\ s_pc = "done"
    /\ Len(s_log) = 2
    /\ s_log[1].matches = <<Match(1, "Zq8fresh0scraped0query0id", "SearchTimeline")>>
    /\ s_log[2].matches = <<Match(3, "SearchTimeline", "Ab1second0scraped0qid")>>
    /\ s_result.value = ("SearchTimeline" :> "Zq8fresh0scraped0query0id")

\* the operation name and the query id a match holds: the first two
\* patterns capture the query id first, the third the operation name
NamedPair(mt) ==
    IF mt.pat = 3
    THEN [op_name |-> mt.groups[1], query_id |-> mt.groups[2]]
    ELSE [op_name |-> mt.groups[2], query_id |-> mt.groups[1]]

\* the matches of the bundles downloaded so far
MatchesSoFar ==
    UNION {Range(s_log[i].matches) : i \in {j \in 1..Len(s_log) : s_log[j].ok}}

\* C32: for every match of a downloaded bundle, whichever token its pattern
\* captured first, the query id token is what is recorded under the
\* operation name token: a known operation that was matched has an
\* identifier, and every identifier is the query id of a match of its
\* operation.
C32_QueryIdUnderOperation ==
    /\ \A mt \in MatchesSoFar : PairOfMatch(mt) = NamedPair(mt)
    /\ \A mt \in MatchesSoFar :
          NamedPair(mt).op_name \in _KNOWN_OPS => NamedPair(mt).op_name \in Recorded(s_found)
    /\ \A op \in Recorded(s_found) :
          \E mt \in MatchesSoFar : NamedPair(mt) = [op_name |-> op, query_id |-> s_found[op]]

\* a bundle held operationName:"Likes" with a query id of letters only, and
\* the same query id for Following the other way round: Following was
\* recorded, Likes was not
C32_Witness ==
    /\ s_pc = "done"
    /\ Len(s_log) = 1
    /\ s_log[1].matches = <<Match(3, "Likes", LettersQid), Match(1, LettersQid, "Following")>>
    /\ s_result.value = ("Following" :> LettersQid)

\* with query ids that are not made of letters only, the pairs are
\* recorded as matched
MixedQidsRecorded ==
    (\A mt \in MatchesSoFar : ~isalpha(NamedPair(mt).query_id)) =>
        /\ \A mt \in MatchesSoFar : PairOfMatch(mt) = NamedPair(mt)
        /\ \A op \in Recorded(s_found) :
              \E mt \in MatchesSoFar : NamedPair(mt) = [op_name |-> op, query_id |-> s_found[op]]


-----------------------------------------------------------------------------
(* Properties of the request engine: bounds                                *)

\* C35: a _graphql_request with n query ids in its first pass and m in its
\* second sends at most 4 * (n + m) requests, whatever is answered: in a
\* pass every query id is requested at most once by GET and at most once by
\* POST, and every such request is repeated at most once, after a 401.
C35_RequestBound ==
    /\ [](/\ hist.n_req <= 4 * (hist.ids1 + hist.ids2)
          /\ (hist.n_req > 0 /\ hist.last.pass = pass_no) =>
                (hist.gets <= Len(query_ids) /\ hist.posts <= Len(query_ids))
          /\ hist.n_refresh <= hist.first401
          /\ hist.first401 <= hist.n_req)
    /\ [][/\ (r_pc = "attempt" /\ r_pc' = "attempt" /\ pass_no' = pass_no
              /\ method' = method) => idx' = idx + 1
          /\ r_pc = "retry" => r_pc' \notin {"retry", "refresh"}
          /\ hist'.n_req > hist.n_req =>
                /\ hist'.n_req = hist.n_req + 1
                /\ r_pc \in {"attempt", "retry"}
                /\ hist'.last.qid = query_ids[idx]]_vars

\* both passes ran over two query ids each, every GET answered 404 and
\* every POST answered 404 as well: eight requests, then the final error
C35_Witness ==
    /\ g_raised = ApiRotated
    /\ hist.ids1 = 2
    /\ hist.ids2 = 2
    /\ hist.n_req = 8
    /\ hist.last.method = "POST"

\* C36, as stated: one _graphql_request refreshes the cookies at most once.
C36_OneRefreshInTotal == hist.n_refresh <= 1

\* C36, amended: the cookies are refreshed once for every first request for
\* a query id that was answered 401 and never otherwise, so a request is
\* followed by at most one refresh; a call whose retry was answered neither
\* 401, 429 nor 200 goes on to the next query id and refreshes again when
\* that one is answered 401.
C36_OneRefreshPerRequest ==
    /\ [](hist.n_refresh = hist.first401 - (IF r_pc = "refresh" THEN 1 ELSE 0))
    /\ [][hist'.n_refresh > hist.n_refresh =>
            /\ r_pc = "refresh"
            /\ hist'.n_refresh = hist.n_refresh + 1
            /\ ~hist.last.retry
            /\ hist.last.status = 401]_vars

\* two query ids of one pass were both answered 401 and the cookies were
\* refreshed for each of them
C36_Witness ==
    /\ hist.n_refresh = 2
    /\ hist.first401 = 2
    /\ hist.last.pass = 1
    /\ hist.last.method = "GET"
    /\ hist.last.retry

-----------------------------------------------------------------------------
(* Properties of search: the v1.1 fallback                                 *)

\* a request to the v1.1 search endpoint has been sent
V1Sent == hist.sent > 0 /\ hist.last.api = "search_v1"

\* the call of search has returned or raised
SearchEnded == r_op \in SearchOps /\ r_pc \in {"done", "failed"}

\* C37, as stated: a search that has ended sent a request to the v1.1
\* endpoint if and only if its GraphQL part raised an exception.
C37_FallbackRequestIffRaised == SearchEnded => (V1Sent <=> g_raised # NoResult)

\* what search does in the step in which its GraphQL part raises
EntersFallback ==
    (r_op \in SearchOps /\ g_raised' # g_raised) =>
        /\ g_raised = NoResult
        /\ r_pc' = "rest_start"
        /\ ~V1Sent

\* what _search_v1 does first: the cookies, and the request only with them
FallbackStarts ==
    (r_op \in SearchOps /\ r_pc = "rest_start") =>
        \/ r_pc' = "rest_request" /\ cookies' # "none" /\ hist' = hist
        \/ r_pc' = "failed" /\ r_result' = NoCookies /\ hist' = hist

\* C37, amended: search calls _search_v1 if and only if its GraphQL part
\* (the request engine or the extraction that follows it) raised, whatever
\* the exception; _search_v1 first obtains the cookies and sends its request
\* when it has them, and raises without any v1.1 request when it has none.
\* After the GraphQL part raised no GraphQL request is sent, and a GraphQL
\* part that returned records is followed by no v1.1 request.
C37_FallbackCalledIffRaised ==
    /\ [](r_op \in SearchOps =>
            /\ V1Sent => g_raised # NoResult
            /\ r_pc \in {"rest_start", "rest_request", "rest_refresh", "rest_retry"}
                  => g_raised # NoResult
            /\ (SearchEnded /\ g_raised # NoResult /\ ~V1Sent) => r_result = NoCookies
            /\ (SearchEnded /\ g_raised = NoResult) => r_pc = "done")
    /\ [][EntersFallback]_vars
    /\ [][FallbackStarts]_vars
    /\ [][(r_op \in SearchOps /\ g_raised # NoResult /\ RequestSent)
            => hist'.last.api = "search_v1"]_vars

\* the extraction raised on the data the GraphQL endpoint returned, and
\* search returned the records of the v1.1 endpoint
C37_Witness ==
    /\ r_op = "search"
    /\ g_raised = ShapeError
    /\ V1Sent
    /\ hist.last.status = 200
    /\ r_pc = "done"

\* the GraphQL part raised and search ended without any v1.1 request: no
\* cookies for the fallback
C37_NoRequestWitness ==
    /\ SearchEnded
    /\ g_raised # NoResult
    /\ ~V1Sent
    /\ r_result = NoCookies

-----------------------------------------------------------------------------
(* Properties of the config file: the frame of the cookie writes           *)

SessionKeys == {"read_auth_token", "read_ct0"}

\* what a JSON object holds under the keys that are not session cookies
OtherKeys(f) == [k \in DOMAIN f.v \ SessionKeys |-> f.v[k]]

\* the invocation of process p writes cookies: _cache_cookies (called
\* directly or by get_read_cookies) or clear_cached_cookies
CookieWrite(p) == proc[p].op \in {"read", "_cache_cookies", "clear_cached_cookies"}

\* the read half of a cookie write on a file that holds a JSON object: the
\* dict to be saved differs from the file in the two session keys only
ReadKeepsOthers(p) ==
    (proc[p].pc \in {"cache_read", "clear_read"} /\ config_file.t = "obj"
     /\ proc'[p] # proc[p]) =>
        /\ proc'[p].pc = "save_open"
        /\ config_file' = config_file
        /\ OtherKeys(proc'[p].config) = OtherKeys(config_file)
        /\ IF proc[p].pc = "cache_read"
           THEN /\ SessionKeys \subseteq DOMAIN proc'[p].config.v
                /\ proc'[p].config.v["read_auth_token"] = proc[p].cookies.v["auth_token"]
                /\ proc'[p].config.v["read_ct0"] = proc[p].cookies.v["ct0"]
           ELSE DOMAIN proc'[p].config.v \cap SessionKeys = {}

\* the write half: save_config leaves in the file the dict it was given
WriteSavesConfig(p) ==
    (CookieWrite(p) /\ proc'[p] # proc[p]) =>
        /\ proc[p].pc = "save_open" =>
              proc'[p].pc = "save_write" /\ proc'[p].config = proc[p].config
        /\ proc[p].pc = "save_write" =>
              proc'[p].pc = "idle" /\ config_file' = proc[p].config

\* C39: on a config file that holds a JSON object, _cache_cookies and
\* clear_cached_cookies (one process, no concurrent writer) change the two
\* session keys only: every other key of the file is in the file after the
\* call, with the value it had, and no other key is added.
C39_OnlyCookieKeysChange ==
    /\ [](\A p \in Procs :
            (CookieWrite(p) /\ proc[p].pc = "save_open" /\ config_file.t = "obj")
                => OtherKeys(proc[p].config) = OtherKeys(config_file))
    /\ [][\A p \in Procs : ReadKeepsOthers(p) /\ WriteSavesConfig(p)]_vars

\* _cache_cookies has returned on a file that held the six values of a setup:
\* the file holds them still, and the cookies of a browser with them
C39_Witness ==
    /\ proc[1].op = "_cache_cookies"
    /\ proc[1].pc = "idle"
    /\ config_file.t = "obj"
    /\ OtherKeys(config_file) = SetupConfig(EarlierSetup).v
    /\ config_file.v["read_auth_token"] = Str(CookieValue("auth_token", ".x.com"))
    /\ config_file.v["read_ct0"] = Str(CookieValue("ct0", ".twitter.com"))

-----------------------------------------------------------------------------
(* Properties of _parse_dm_inbox                                           *)

\* the message of the entry at position i, its conversation id and its
\* timestamp
MessageAt(i) == dict_get(Entries[i], "message", EmptyDict)
ConvAt(i) == dict_get(MessageAt(i), "conversation_id", Str("")).v
TsAt(i) == IntOf(TimeText(MessageAt(i)))

\* the positions of the messages that have non-empty message data
WithData ==
    {i \in 1..Len(Entries) : Truthy(dict_get(MessageAt(i), "message_data", EmptyDict))}

\* the position of the conversation's message that is to be returned: the
\* greatest timestamp, the earliest listed one among equals
LatestOf(conv) ==
    CHOOSE i \in WithData :
        /\ ConvAt(i) = conv
        /\ \A k \in WithData : ConvAt(k) = conv =>
              \/ TsAt(k) < TsAt(i)
              \/ TsAt(k) = TsAt(i) /\ i <= k

\* C38: the list _parse_dm_inbox returns has one entry for every
\* conversation id that has a message with non-empty message data and none
\* for any other, the entry is made of the conversation's message with the
\* greatest timestamp (the earliest listed one when several have it), and
\* the timestamps of the list never increase.
C38_LatestPerConversation ==
    d_pc = "done" =>
        LET result == d_result.value
        IN /\ \A j, k \in 1..Len(result) :
                j # k => result[j].conversation_id # result[k].conversation_id
           /\ {result[j].conversation_id : j \in 1..Len(result)}
                = {ConvAt(i) : i \in WithData}
           /\ \A j \in 1..Len(result) :
                LET i == LatestOf(result[j].conversation_id)
                IN /\ result[j].created_at = StrOf(TsAt(i))
                   /\ result[j].text =
                        _expand_dm_text(dict_get(MessageAt(i), "message_data", EmptyDict))
           /\ \A j, k \in 1..Len(result) :
                j < k => IntOf(result[j].created_at) >= IntOf(result[k].created_at)

\* three messages with data: two of one conversation with the timestamp 7
\* ("7" and "07"), listed after one of another conversation with the
\* timestamp 5; the list holds the first of the two, then the older one
C38_Witness ==
    /\ d_pc = "done"
    /\ Len(Entries) = 3
    /\ WithData = {1, 2, 3}
    /\ ConvAt(1) = "c2" /\ TsAt(1) = 5
    /\ ConvAt(2) = "c1" /\ ConvAt(3) = "c1"
    /\ TimeText(MessageAt(2)) = "07" /\ TimeText(MessageAt(3)) = "7"
    /\ Len(d_result.value) = 2
    /\ d_result.value[1].text = "m2"
    /\ d_result.value[2].text = "m1 example.com/a"

-----------------------------------------------------------------------------
(* Properties of the thread command                                        *)

\* the media of an entry are valid: every path is a file with an allowed
\* extension, a video or GIF comes alone, and there are at most 4 images
ValidMedia(media) ==
    /\ \A k \in 1..Len(media) :
          media[k].isfile /\ Lower(media[k].ext) \in ALLOWED_EXTENSIONS
    /\ (\E k \in 1..Len(media) :
          Lower(media[k].ext) \in VIDEO_EXTENSIONS \cup GIF_EXTENSIONS) => Len(media) = 1
    /\ Cardinality({k \in 1..Len(media) : Lower(media[k].ext) \in IMAGE_EXTENSIONS}) <= 4

\* every tweet of the thread passes validation
AllValid ==
    \A i \in 1..Len(tweet_entries) :
        tweet_entries[i].length <= MaxTweetLength /\ ValidMedia(tweet_entries[i].media)

\* the post_tweet calls made so far, in order
IsPost(c) == c.kind = "post"
Posts == SelectSeq(t_log, IsPost)

\* the command has made a call that raised
CallFailed == \E k \in 1..Len(t_log) : t_log[k].id = Null

\* C40: the thread command calls upload_media and post_tweet only when every
\* tweet passed validation; the k-th post_tweet call sends the k-th tweet,
\* the first without a reply target and every later one with the id the
\* call before it returned as its reply target; and the call that raised is
\* the last call of the command.
C40_ThreadPostedInOrder ==
    /\ [](t_log # <<>> => AllValid)
    /\ [](\A k \in 1..Len(Posts) :
            /\ Posts[k].tweet = k
            /\ Posts[k].sent.text = tweet_entries[k].text
            /\ k = 1 => Posts[k].sent.reply = Null
            /\ k > 1 => Posts[k].sent.reply = Posts[k - 1].id /\ Posts[k - 1].id # Null)
    /\ [](\A k \in 1..Len(t_log) : t_log[k].id = Null => k = Len(t_log) /\ t_pc = "failed")
    /\ [][CallFailed => t_log' = t_log]_vars
    /\ [](t_pc = "done" => Len(Posts) = Len(tweet_entries))

\* a thread of three tweets: the first two were posted, the second as a
\* reply to the first, and an upload for the third raised
C40_Witness ==
    /\ Len(tweet_entries) = 3
    /\ Len(Posts) = 2
    /\ Posts[2].sent.reply = Posts[1].id
    /\ Posts[1].id # Posts[2].id
    /\ t_log[Len(t_log)].kind = "upload"
    /\ t_log[Len(t_log)].tweet = 3
    /\ t_log[Len(t_log)].id = Null
    /\ t_pc = "failed"

\* three tweets were posted, each after the first as a reply to the one
\* before it, the second with two uploaded media
C40_ThreadPosted ==
    /\ t_pc = "done"
    /\ Len(Posts) = 3
    /\ Posts[2].sent.media = Arr(<<MediaIdOf(2, 1), MediaIdOf(2, 2)>>)
    /\ Posts[3].sent.reply = Posts[2].id

====
